---------------------------- MODULE Spec2Model ----------------------------
(***************************************************************************)
(* A model of the wedge tool: the configuration model                      *)
(* (wedge_config_manager.py: WedgeConfig) and the sweep submitter          *)
(* (wedge_submitter.py: value expansion, axes, combinations, naming and    *)
(* the submission loop of main).                                           *)
(*                                                                         *)
(* JSON values / Python objects are records [t, n, s, l]:                  *)
(*   t  the Python type ("null", "bool", "int", "float", "str", "list",    *)
(*      "dict", and "item" for one key/value pair of a dict),              *)
(*   n  the number (an int; a float is held in quarter units, so that      *)
(*      every float of the model is a dyadic rational the Python float     *)
(*      arithmetic computes exactly; a bool is 0 or 1),                    *)
(*   s  the string (of a str, or the key of an item),                      *)
(*   l  the elements (of a list), the items in insertion order (of a       *)
(*      dict) or the one value (of an item).                               *)
(***************************************************************************)
EXTENDS Integers, Sequences, FiniteSets, TLC

(***************************************************************************)
(* Python values                                                           *)
(***************************************************************************)
JNull == [t |-> "null", n |-> 0, s |-> "", l |-> <<>>]
JBool(b) == [t |-> "bool", n |-> IF b THEN 1 ELSE 0, s |-> "", l |-> <<>>]
JInt(i) == [t |-> "int", n |-> i, s |-> "", l |-> <<>>]
JFloat(q) == [t |-> "float", n |-> q, s |-> "", l |-> <<>>]
JStr(x) == [t |-> "str", n |-> 0, s |-> x, l |-> <<>>]
JList(xs) == [t |-> "list", n |-> 0, s |-> "", l |-> xs]
JItem(k, v) == [t |-> "item", n |-> 0, s |-> k, l |-> <<v>>]
JDict(items) == [t |-> "dict", n |-> 0, s |-> "", l |-> items]

\* Quarter units per unit of a float (a power of two: the floats are exact).
FloatScale == 2 * 2

\* a == b on Python values: numbers compare by value across bool, int and
\* float; anything else by type and content.
IsNumber(v) == v.t \in {"bool", "int", "float"}
NumQuarters(v) == IF v.t = "float" THEN v.n ELSE v.n * FloatScale
PyEq(a, b) ==
    IF IsNumber(a) /\ IsNumber(b) THEN NumQuarters(a) = NumQuarters(b)
    ELSE a = b

\* bool(v): Python truthiness.
Truthy(v) ==
    CASE v.t = "null" -> FALSE
      [] v.t \in {"bool", "int", "float"} -> v.n # 0
      [] v.t = "str" -> v.s # ""
      [] OTHER -> Len(v.l) > 0

\* isinstance(v, str), isinstance(v, list), isinstance(v, dict)
IsStr(v) == v.t = "str"
IsList(v) == v.t = "list"
IsDict(v) == v.t = "dict"

\* k in d
DictHas(d, k) == \E i \in 1..Len(d.l) : d.l[i].s = k

DictIndex(d, k) == CHOOSE i \in 1..Len(d.l) : d.l[i].s = k

\* d.get(k, default)
DictGet(d, k, default) ==
    IF DictHas(d, k) THEN d.l[DictIndex(d, k)].l[1] ELSE default

\* d[k] = v: an existing key keeps its place, a new key goes last.
DictSet(d, k, v) ==
    IF DictHas(d, k)
    THEN JDict([d.l EXCEPT ![DictIndex(d, k)] = JItem(k, v)])
    ELSE JDict(Append(d.l, JItem(k, v)))

\* d.pop(k, None)
DictPop(d, k) ==
    JDict(SelectSeq(d.l, LAMBDA it : it.s # k))

\* d.setdefault(k, []).append(x)
\* An append that starts the list of the key over.
DictSetDefaultOverwrite(d, k, x) == DictSet(d, k, JList(<<x>>))

DictSetDefaultAppend(d, k, x) ==
    DictSet(d, k, JList(Append(DictGet(d, k, JList(<<>>)).l, x)))

(***************************************************************************)
(* WedgeConfig: normalisation, validation, serialisation                   *)
(***************************************************************************)
\* The outcome of a call that may raise: ok and the value, or the error.
Returned(v) == [ok |-> TRUE, val |-> v, err |-> ""]
Raised(e) == [ok |-> FALSE, val |-> JNull, err |-> e]

IsEntryOfLen(entry, k) == IsList(entry) /\ Len(entry.l) = k

\* The dict branch of _normalize_overrides: node -> [[param, value], ...].
RECURSIVE normalize_overrides_dict(_, _, _)
normalize_overrides_dict(items, i, normalized) ==
    IF i > Len(items) THEN Returned(normalized)
    ELSE LET node == items[i].s
             entries == items[i].l[1]
         IN  IF ~IsList(entries) THEN Raised("ValueError")
             ELSE IF \E j \in 1..Len(entries.l) : ~IsEntryOfLen(entries.l[j], 2)
             THEN Raised("ValueError")
             ELSE normalize_overrides_dict(items, i + 1,
                                           DictSet(normalized, node, JList(entries.l)))

\* The legacy branch of _normalize_overrides: [[node, param, value], ...].
RECURSIVE normalize_overrides_list(_, _, _)
normalize_overrides_list(raw, i, normalized) ==
    IF i > Len(raw) THEN Returned(normalized)
    ELSE LET entry == raw[i] IN
         IF ~IsEntryOfLen(entry, 3) THEN Raised("ValueError")
         ELSE LET node == entry.l[1]
                  param == entry.l[2]
                  value == entry.l[3]
              IN  IF ~IsStr(node) THEN Raised("ValueError")
                  ELSE normalize_overrides_list(raw, i + 1,
                           DictSetDefaultAppend(normalized, node.s,
                                                JList(<<param, value>>)))

normalize_overrides(raw) ==
    IF raw = JNull \/ raw = JDict(<<>>) THEN Returned(JDict(<<>>))
    ELSE IF IsDict(raw) THEN normalize_overrides_dict(raw.l, 1, JDict(<<>>))
    ELSE IF IsList(raw) THEN normalize_overrides_list(raw.l, 1, JDict(<<>>))
    ELSE Raised("ValueError")

\* _normalize_wedges: "isinstance(value, list) and value and isinstance(value[0], list)"
IsModernWedgeValue(value) ==
    IsList(value) /\ Len(value.l) > 0 /\ IsList(value.l[1])

\* "isinstance(value, list) and len(value) == 3 and isinstance(key, str)"
IsLegacyWedgeValue(value) == IsList(value) /\ Len(value.l) = 3

\* The loop of _normalize_wedges over raw.items().
RECURSIVE normalize_wedges_loop(_, _, _)
normalize_wedges_loop(items, i, normalized) ==
    IF i > Len(items) THEN Returned(normalized)
    ELSE LET key == items[i].s
             value == items[i].l[1]
         IN  IF IsModernWedgeValue(value)
             THEN IF \E j \in 1..Len(value.l) : ~IsEntryOfLen(value.l[j], 3)
                  THEN Raised("ValueError")
                  ELSE normalize_wedges_loop(items, i + 1,
                                             DictSet(normalized, key, JList(value.l)))
             ELSE IF IsLegacyWedgeValue(value)
             THEN LET node_name == value.l[1]
                      values_config == value.l[2]
                      mode == value.l[3]
                  IN  IF ~IsStr(node_name) THEN Raised("ValueError")
                      ELSE normalize_wedges_loop(items, i + 1,
                               DictSetDefaultAppend(normalized, node_name.s,
                                   JList(<<JStr(key), values_config, mode>>)))
             ELSE Raised("ValueError")

normalize_wedges(raw) ==
    IF raw = JNull \/ raw = JDict(<<>>) THEN Returned(JDict(<<>>))
    ELSE IF ~IsDict(raw) THEN Raised("ValueError")
    ELSE normalize_wedges_loop(raw.l, 1, JDict(<<>>))

\* The dataclass: five fields.
WedgeConfig(output_folder, filename_prefix, url, param_overrides, param_wedges) ==
    [output_folder |-> output_folder, filename_prefix |-> filename_prefix,
     url |-> url, param_overrides |-> param_overrides,
     param_wedges |-> param_wedges]

\* "wedge_type not in ('minmax', 'explicit')"
IsWedgeType(v) == IsStr(v) /\ v.s \in {"minmax", "explicit"}

\* vet: TRUE when no ValueError is raised.
\* A validation that does not look at the wedge kinds.
vet_ignoring_kind(c) ==
    /\ Truthy(c.output_folder) /\ IsStr(c.output_folder)
    /\ Truthy(c.filename_prefix) /\ IsStr(c.filename_prefix)
    /\ Truthy(c.url) /\ IsStr(c.url)
    /\ IsDict(c.param_overrides)
    /\ IsDict(c.param_wedges)
    /\ \A i \in 1..Len(c.param_overrides.l) :
          LET overrides == c.param_overrides.l[i].l[1] IN
          /\ IsList(overrides)
          /\ \A j \in 1..Len(overrides.l) : IsEntryOfLen(overrides.l[j], 2)
    /\ \A i \in 1..Len(c.param_wedges.l) :
          LET wedges == c.param_wedges.l[i].l[1] IN
          /\ IsList(wedges)
          /\ \A j \in 1..Len(wedges.l) : IsEntryOfLen(wedges.l[j], 3)

vet(c) ==
    /\ Truthy(c.output_folder) /\ IsStr(c.output_folder)
    /\ Truthy(c.filename_prefix) /\ IsStr(c.filename_prefix)
    /\ Truthy(c.url) /\ IsStr(c.url)
    /\ IsDict(c.param_overrides)
    /\ IsDict(c.param_wedges)
    /\ \A i \in 1..Len(c.param_overrides.l) :
          LET overrides == c.param_overrides.l[i].l[1] IN
          /\ IsList(overrides)
          /\ \A j \in 1..Len(overrides.l) : IsEntryOfLen(overrides.l[j], 2)
    /\ \A i \in 1..Len(c.param_wedges.l) :
          LET wedges == c.param_wedges.l[i].l[1] IN
          /\ IsList(wedges)
          /\ \A j \in 1..Len(wedges.l) :
                /\ IsEntryOfLen(wedges.l[j], 3)
                /\ IsWedgeType(wedges.l[j].l[3])

\* A config that stands for "no config" (a failed load).
NoConfig == WedgeConfig(JNull, JNull, JNull, JDict(<<>>), JDict(<<>>))

\* from_dict: [ok, cfg]; ok is FALSE when normalisation or vet raises.
from_dict(data) ==
    LET first == DictGet(data, "output_folder", JNull)
        output_folder == IF Truthy(first) THEN first
                         ELSE DictGet(data, "project_name", JStr(""))
        overrides == normalize_overrides(DictGet(data, "param_overrides", JDict(<<>>)))
        wedges == normalize_wedges(DictGet(data, "param_wedges", JDict(<<>>)))
        config == WedgeConfig(output_folder,
                              DictGet(data, "filename_prefix", JStr("")),
                              DictGet(data, "url", JStr("")),
                              overrides.val, wedges.val)
    IN  IF ~overrides.ok \/ ~wedges.ok THEN [ok |-> FALSE, cfg |-> NoConfig]
        ELSE IF ~vet(config) THEN [ok |-> FALSE, cfg |-> NoConfig]
        ELSE [ok |-> TRUE, cfg |-> config]

\* A serialisation that leaves the overrides out.
to_dict_without_overrides(c) ==
    JDict(<< JItem("output_folder", c.output_folder),
             JItem("filename_prefix", c.filename_prefix),
             JItem("url", c.url),
             JItem("param_wedges", c.param_wedges) >>)

to_dict(c) ==
    JDict(<< JItem("output_folder", c.output_folder),
             JItem("filename_prefix", c.filename_prefix),
             JItem("url", c.url),
             JItem("param_overrides", c.param_overrides),
             JItem("param_wedges", c.param_wedges) >>)

(***************************************************************************)
(* WedgeConfig: mutators                                                   *)
(***************************************************************************)
\* [entry for entry in entries if entry[0] != param]
WithoutParam(entries, param) ==
    SelectSeq(entries, LAMBDA entry : ~PyEq(entry.l[1], JStr(param)))

\* A set that appends without dropping the entry the param already has.
set_param_override_appending(c, node_name, param, value) ==
    LET overrides == DictGet(c.param_overrides, node_name, JList(<<>>))
    IN  [c EXCEPT !.param_overrides =
            DictSet(c.param_overrides, node_name,
                    JList(Append(overrides.l, JList(<<JStr(param), value>>))))]

set_param_override(c, node_name, param, value) ==
    LET overrides == DictGet(c.param_overrides, node_name, JList(<<>>))
        kept == WithoutParam(overrides.l, param)
    IN  [c EXCEPT !.param_overrides =
            DictSet(c.param_overrides, node_name,
                    JList(Append(kept, JList(<<JStr(param), value>>))))]

remove_param_override(c, node_name, param) ==
    LET overrides == DictGet(c.param_overrides, node_name, JNull)
        kept == WithoutParam(overrides.l, param)
    IN  IF ~Truthy(overrides) THEN c
        ELSE IF kept = <<>>
        THEN [c EXCEPT !.param_overrides = DictPop(c.param_overrides, node_name)]
        ELSE [c EXCEPT !.param_overrides =
                 DictSet(c.param_overrides, node_name, JList(kept))]

\* Defined for wedge_type in ("minmax", "explicit"); any other raises.
set_param_wedge(c, node_name, param, wedge_values, wedge_type) ==
    LET wedges == DictGet(c.param_wedges, node_name, JList(<<>>))
        kept == WithoutParam(wedges.l, param)
    IN  [c EXCEPT !.param_wedges =
            DictSet(c.param_wedges, node_name,
                    JList(Append(kept, JList(<<JStr(param), JList(wedge_values),
                                               JStr(wedge_type)>>))))]

remove_param_wedge(c, node_name, param) ==
    LET wedges == DictGet(c.param_wedges, node_name, JNull)
        kept == WithoutParam(wedges.l, param)
    IN  IF ~Truthy(wedges) THEN c
        ELSE IF kept = <<>>
        THEN [c EXCEPT !.param_wedges = DictPop(c.param_wedges, node_name)]
        ELSE [c EXCEPT !.param_wedges =
                 DictSet(c.param_wedges, node_name, JList(kept))]

(***************************************************************************)
(* Text: a Python str by its characters                                    *)
(***************************************************************************)
\* The characters of the strings the model's documents and templates use.
Chars(s) ==
    CASE s = "" -> <<>>
      [] s = "A" -> <<"A">>
      [] s = "B" -> <<"B">>
      [] s = "p" -> <<"p">>
      [] s = "q" -> <<"q">>
      [] s = "r" -> <<"r">>
      [] s = "img" -> <<"i", "m", "g">>
      [] s = "out" -> <<"o", "u", "t">>
      [] s = "old" -> <<"o", "l", "d">>
      [] s = "images" -> <<"i", "m", "a", "g", "e", "s">>
      [] s = "x y" -> <<"x", " ", "y">>
      [] s = "x_y" -> <<"x", "_", "y">>
      [] s = "True" -> <<"T", "r", "u", "e">>
      [] s = "False" -> <<"F", "a", "l", "s", "e">>
      [] s = "None" -> <<"N", "o", "n", "e">>

\* A str computed at run time, held by its characters.
JText(cs) == [t |-> "str", n |-> 0, s |-> "", l |-> [i \in 1..Len(cs) |-> JStr(cs[i])]]

\* The characters of a str value of either form.
CharsOf(v) ==
    IF v.l = <<>> THEN Chars(v.s) ELSE [i \in 1..Len(v.l) |-> v.l[i].s]

\* The characters of the model in code point order: ord(c) orders them.
Alphabet ==
    << " ", "-", ".", "/", "0", "1", "2", "3", "4", "5", "6", "7", "8", "9",
       "A", "B", "F", "N", "T", "_", "a", "d", "e", "g", "i", "l", "m", "n",
       "o", "p", "q", "r", "s", "t", "u", "x", "y" >>

Ord(c) == CHOOSE i \in 1..Len(Alphabet) : Alphabet[i] = c

\* a < b on str: lexicographic by code point.
RECURSIVE TextLess(_, _)
TextLess(a, b) ==
    IF b = <<>> THEN FALSE
    ELSE IF a = <<>> THEN TRUE
    ELSE IF Head(a) # Head(b) THEN Ord(Head(a)) < Ord(Head(b))
    ELSE TextLess(Tail(a), Tail(b))

StrLess(x, y) == TextLess(Chars(x), Chars(y))

\* sorted(d): the keys of a dict in ascending order.
RECURSIVE SortedKeysOf(_)
SortedKeysOf(keys) ==
    IF keys = {} THEN <<>>
    ELSE LET least == CHOOSE k \in keys : \A o \in keys \ {k} : StrLess(k, o)
         IN  <<least>> \o SortedKeysOf(keys \ {least})

\* Keys in insertion order, unsorted.
sorted_as_inserted(d) == [i \in 1..Len(d.l) |-> d.l[i].s]

DictKeys(d) == [i \in 1..Len(d.l) |-> d.l[i].s]

sorted(d) == SortedKeysOf({d.l[i].s : i \in 1..Len(d.l)})

Digit(d) == Alphabet[Ord("0") + d]

\* str(n) of a natural number, an int
RECURSIVE NatText(_)
NatText(n) ==
    IF n < 10 THEN <<Digit(n)>> ELSE NatText(n \div 10) \o <<Digit(n % 10)>>

IntText(n) == IF n < 0 THEN <<"-">> \o NatText(-n) ELSE NatText(n)

Abs(x) == IF x < 0 THEN -x ELSE x

\* f"{value:.10g}".rstrip(".") of the float of q quarters: %g drops the
\* trailing zeros and the point of a whole number.
FloatText(q) ==
    LET whole == Abs(q) \div FloatScale
        frac == Abs(q) % FloatScale
        sign == IF q < 0 THEN <<"-">> ELSE <<>>
        decimals == CASE frac = 0 -> <<>>
                      [] frac = 1 -> <<".", "2", "5">>
                      [] frac = 2 -> <<".", "5">>
                      [] frac = 3 -> <<".", "7", "5">>
    IN  sign \o NatText(whole) \o decimals

\* str(value) of the values a wedge or an override holds.
StrText(value) ==
    CASE value.t = "str" -> CharsOf(value)
      [] value.t = "int" -> IntText(value.n)
      [] value.t = "bool" -> IF value.n = 1 THEN Chars("True") ELSE Chars("False")
      [] value.t = "null" -> Chars("None")

stringify_value(value) ==
    IF value.t = "float" THEN FloatText(value.n) ELSE StrText(value)

\* The characters sanitize_value replaces.
Unsafe == {" ", "/", "\\", ":", ",", ";", "\"", "'"}

sanitize_value(value) ==
    LET text == stringify_value(value)
    IN  [i \in 1..Len(text) |-> IF text[i] \in Unsafe THEN "_" ELSE text[i]]

\* sep.join(parts)
RECURSIVE Join(_, _)
Join(sep, parts) ==
    IF parts = <<>> THEN <<>>
    ELSE IF Len(parts) = 1 THEN parts[1]
    ELSE parts[1] \o sep \o Join(sep, Tail(parts))

\* The tokens of one node of a combination, params in sorted order.
NodeTokens(node_name, params) ==
    LET names == sorted(params)
    IN  [j \in 1..Len(names) |->
            Chars(node_name) \o <<"-">> \o Chars(names[j]) \o <<"-">>
                \o sanitize_value(DictGet(params, names[j], JNull))]

RECURSIVE Concat(_)
Concat(seqs) == IF seqs = <<>> THEN <<>> ELSE Head(seqs) \o Concat(Tail(seqs))

build_filename(prefix, combination) ==
    LET nodes == sorted(combination)
        parts == <<CharsOf(prefix)>> \o
                 Concat([i \in 1..Len(nodes) |->
                           NodeTokens(nodes[i], DictGet(combination, nodes[i], JNull))])
    IN  Join(<<"_", "_">>, parts)

(***************************************************************************)
(* Value expansion, axes and combinations                                  *)
(***************************************************************************)
\* _coerce_numeric of the float of q quarters: a whole number becomes an
\* int, any other float of the model is its own rounding to 10 decimals.
coerce_numeric(q) ==
    IF q % FloatScale = 0 THEN JInt(q \div FloatScale) ELSE JFloat(q)

max_iterations == 100000

\* tolerance = abs(step_f) * 1e-9, held as abs(step_f) / ToleranceInverse
ToleranceInverse == 1000000000

\* A test that stops at stop itself.
BeyondStopOrAt(current, stop_f, step_f) ==
    IF step_f > 0 THEN current >= stop_f ELSE current <= stop_f

\* "current > stop_f + tolerance" on quarters: with d = current - stop_f a
\* whole number of quarters, d > abs(step_f) / 10^9.
BeyondStop(current, stop_f, step_f) ==
    IF step_f > 0
    THEN current - stop_f > Abs(step_f) \div ToleranceInverse
    ELSE stop_f - current > Abs(step_f) \div ToleranceInverse

\* The while loop of expand_wedge_values.
RECURSIVE expand_loop(_, _, _, _, _)
expand_loop(current, stop_f, step_f, result, iterations) ==
    IF BeyondStop(current, stop_f, step_f)
    THEN IF result = <<>> THEN Raised("ValueError") ELSE Returned(JList(result))
    ELSE IF iterations + 1 > max_iterations THEN Raised("ValueError")
    ELSE expand_loop(current + step_f, stop_f, step_f,
                     Append(result, coerce_numeric(current)), iterations + 1)

\* list(spec): the elements of a list, the characters of a str.
ListOf(spec) ==
    IF IsList(spec) THEN Returned(JList(spec.l))
    ELSE IF IsStr(spec)
    THEN Returned(JList([i \in 1..Len(CharsOf(spec)) |-> JStr(CharsOf(spec)[i])]))
    ELSE Raised("TypeError")

expand_wedge_values(spec, wedge_type) ==
    LET values == ListOf(spec) IN
    IF wedge_type = JStr("explicit")
    THEN IF ~values.ok THEN values
         ELSE IF values.val.l = <<>> THEN Raised("ValueError")
         ELSE values
    ELSE IF wedge_type = JStr("minmax")
    THEN IF ~values.ok THEN values
         ELSE IF Len(values.val.l) # 3 THEN Raised("ValueError")
         ELSE LET start == values.val.l[1]
                  stop == values.val.l[2]
                  step == values.val.l[3]
              IN  IF PyEq(step, JInt(0)) THEN Raised("ValueError")
                  \* float(x) of anything but a number raises (the strings
                  \* of the model are not numerals)
                  ELSE IF ~IsNumber(start) \/ ~IsNumber(stop) \/ ~IsNumber(step)
                  THEN Raised(IF IsStr(start) \/ (IsNumber(start) /\ IsStr(stop))
                                 \/ (IsNumber(start) /\ IsNumber(stop) /\ IsStr(step))
                              THEN "ValueError" ELSE "TypeError")
                  ELSE expand_loop(NumQuarters(start), NumQuarters(stop),
                                   NumQuarters(step), <<>>, 0)
    ELSE Raised("ValueError")

\* round(num / den): the nearest integer, a half goes to the even neighbour.
round_half_even(num, den) ==
    LET n == IF den < 0 THEN 0 - num ELSE num
        d == Abs(den)
        low == n \div d
        rest == n - low * d
    IN  IF 2 * rest < d THEN low
        ELSE IF 2 * rest > d THEN low + 1
        ELSE IF low % 2 = 0 THEN low ELSE low + 1

\* The size _estimate_total_runs gives one entry; counted is FALSE where the
\* loop goes on without one ("continue").
estimate_entry(entry) ==
    LET skipped == [counted |-> FALSE, size |-> 1] IN
    IF ~IsEntryOfLen(entry, 3) THEN skipped
    ELSE LET values_spec == entry.l[2]
             wtype == entry.l[3]
         IN  IF wtype = JStr("explicit") /\ IsList(values_spec)
             THEN [counted |-> TRUE,
                   size |-> IF Len(values_spec.l) < 1 THEN 1 ELSE Len(values_spec.l)]
             ELSE IF wtype = JStr("minmax") /\ IsList(values_spec) /\ Len(values_spec.l) = 3
             THEN LET vmin == values_spec.l[1]
                      vmax == values_spec.l[2]
                      step == values_spec.l[3]
                  IN  IF PyEq(step, JInt(0)) THEN skipped
                      \* float(x) of anything but a number raises
                      ELSE IF ~IsNumber(vmin) \/ ~IsNumber(vmax) \/ ~IsNumber(step)
                      THEN skipped
                      ELSE LET size == round_half_even(
                                           NumQuarters(vmax) - NumQuarters(vmin),
                                           NumQuarters(step)) + 1
                           IN  [counted |-> TRUE, size |-> IF size < 1 THEN 1 ELSE size]
             ELSE skipped

\* The product of the sizes of the entries counted; 1 when there is none.
RECURSIVE size_product(_)
size_product(entries) ==
    IF entries = <<>> THEN 1
    ELSE estimate_entry(Head(entries)).size * size_product(Tail(entries))

\* WedgeSubmitterUI._estimate_total_runs
estimate_total_runs(param_wedges) ==
    IF ~IsDict(param_wedges) THEN [none |-> TRUE, total |-> 0]
    ELSE [none |-> FALSE,
          total |-> size_product(Concat([i \in 1..Len(param_wedges.l) |->
                        IF IsList(param_wedges.l[i].l[1])
                        THEN param_wedges.l[i].l[1].l ELSE <<>>]))]

\* An axis: ((node_name, param), values).
Axis(node_name, param, values) ==
    [node |-> node_name, param |-> param, values |-> values]

\* build_axes: the wedges of one node from the j-th on, then the nodes from
\* the i-th on, in the order of config.param_wedges.
RECURSIVE build_axes_loop(_, _, _, _)
build_axes_loop(items, i, j, axes) ==
    IF i > Len(items) THEN [ok |-> TRUE, axes |-> axes]
    ELSE LET node_name == items[i].s
             wedges == items[i].l[1].l
         IN  IF j > Len(wedges) THEN build_axes_loop(items, i + 1, 1, axes)
             ELSE LET wedge == wedges[j]
                      expanded == expand_wedge_values(wedge.l[2], wedge.l[3])
                  IN  IF ~expanded.ok THEN [ok |-> FALSE, axes |-> <<>>]
                      ELSE build_axes_loop(items, i, j + 1,
                               Append(axes, Axis(node_name, wedge.l[1].s,
                                                 expanded.val.l)))

\* Axes built from the node declared first alone.
build_axes_first_node(config) ==
    LET items == config.param_wedges.l
    IN  build_axes_loop(IF items = <<>> THEN items ELSE <<Head(items)>>, 1, 1, <<>>)

build_axes(config) == build_axes_loop(config.param_wedges.l, 1, 1, <<>>)

\* math.prod(len(axis[1]) for axis in axes)
RECURSIVE prod_len(_)
prod_len(axes) ==
    IF axes = <<>> THEN 1 ELSE Len(Head(axes).values) * prod_len(Tail(axes))

\* A product in which the first axis varies fastest.
product_step_first_fastest(result, pool) ==
    [k \in 1..(Len(result) * Len(pool)) |->
        Append(result[((k - 1) % Len(result)) + 1], pool[((k - 1) \div Len(result)) + 1])]

\* One step of itertools.product:
\* result = [x + [y] for x in result for y in pool]
product_step(result, pool) ==
    [k \in 1..(Len(result) * Len(pool)) |->
        Append(result[((k - 1) \div Len(pool)) + 1], pool[((k - 1) % Len(pool)) + 1])]

\* itertools.product(*value_lists)
RECURSIVE product_from(_, _)
product_from(result, pools) ==
    IF pools = <<>> THEN result
    ELSE product_from(product_step(result, Head(pools)), Tail(pools))

product(value_lists) == product_from(<< <<>> >>, value_lists)

\* combination.setdefault(node_name, {})[param] = value
SetNodeParam(combination, node_name, param, value) ==
    DictSet(combination, node_name,
            DictSet(DictGet(combination, node_name, JDict(<<>>)), param, value))

\* The inner loop of iter_combinations over zip(keys, combo_values).
RECURSIVE combination_of(_, _, _, _)
combination_of(axes, combo_values, k, combination) ==
    IF k > Len(axes) THEN combination
    ELSE combination_of(axes, combo_values, k + 1,
             SetNodeParam(combination, axes[k].node, axes[k].param, combo_values[k]))

\* An enumeration that yields nothing when there are no axes.
iter_combinations_nothing_if_empty(as) ==
    IF as = <<>> THEN <<>>
    ELSE LET combos == product([a \in 1..Len(as) |-> as[a].values])
         IN  [c \in 1..Len(combos) |-> combination_of(as, combos[c], 1, JDict(<<>>))]

\* iter_combinations: the sequence the generator yields.
iter_combinations(axes) ==
    IF axes = <<>> THEN << JDict(<<>>) >>
    ELSE LET combos == product([a \in 1..Len(axes) |-> axes[a].values])
         IN  [c \in 1..Len(combos) |-> combination_of(axes, combos[c], 1, JDict(<<>>))]

\* format_combination; "<no wedges>" is the empty text here.
format_combination(combination) ==
    LET nodes == sorted(combination)
    IN  Concat([i \in 1..Len(nodes) |->
            LET params == DictGet(combination, nodes[i], JNull)
                names == sorted(params)
            IN  [j \in 1..Len(names) |->
                    [node |-> nodes[i], param |-> names[j],
                     value |-> DictGet(params, names[j], JNull)]]])

(***************************************************************************)
(* The job template (comfyman.ComfyWorkflow), as main uses it: nodes with  *)
(* a title, a class type and inputs; set_param_value answers whether the   *)
(* template took the value; refused holds the (title, param, value)        *)
(* triples the template rejects although the location exists.              *)
(***************************************************************************)
Node(title, class_type, inputs) ==
    [title |-> title, class_type |-> class_type, inputs |-> inputs]

Workflow(nodes, refused) ==
    [nodes |-> nodes, adhoc |-> JDict(<<>>), refused |-> refused]

HasLocation(workflow, title, param) ==
    \E i \in 1..Len(workflow.nodes) :
        workflow.nodes[i].title = title /\ DictHas(workflow.nodes[i].inputs, param)

\* workflow.set_param_value(title, param, value): [ok, workflow]
set_param_value(workflow, title, param, value) ==
    IF HasLocation(workflow, title, param) /\ <<title, param, value>> \notin workflow.refused
    THEN [ok |-> TRUE,
          workflow |-> [workflow EXCEPT !.nodes =
              [i \in 1..Len(workflow.nodes) |->
                  IF workflow.nodes[i].title = title
                        /\ DictHas(workflow.nodes[i].inputs, param)
                  THEN [workflow.nodes[i] EXCEPT
                            !.inputs = DictSet(workflow.nodes[i].inputs, param, value)]
                  ELSE workflow.nodes[i]]]]
    ELSE [ok |-> FALSE, workflow |-> workflow]

\* workflow.update_adhoc_metadata(key, value)
update_adhoc_metadata(workflow, key, value) ==
    [workflow EXCEPT !.adhoc = DictSet(workflow.adhoc, key, value)]

\* The (node, param, value) triples of a node -> [[param, value], ...] dict
\* or of a combination, in iteration order.
OverrideTriples(param_overrides) ==
    Concat([i \in 1..Len(param_overrides.l) |->
        LET overrides == param_overrides.l[i].l[1].l
        IN  [j \in 1..Len(overrides) |->
                [node |-> param_overrides.l[i].s, param |-> overrides[j].l[1].s,
                 value |-> overrides[j].l[2]]]])

CombinationTriples(combination) ==
    Concat([i \in 1..Len(combination.l) |->
        LET params == combination.l[i].l[1].l
        IN  [j \in 1..Len(params) |->
                [node |-> combination.l[i].s, param |-> params[j].s,
                 value |-> params[j].l[1]]]])

\* An application that ignores what set_param_value answers.
RECURSIVE apply_triples_unchecked(_, _, _)
apply_triples_unchecked(workflow, triples, k) ==
    IF k > Len(triples) THEN [ok |-> TRUE, workflow |-> workflow]
    ELSE apply_triples_unchecked(
             set_param_value(workflow, triples[k].node, triples[k].param,
                             triples[k].value).workflow, triples, k + 1)

\* Set the triples from the k-th on; ok is FALSE at the first the template
\* rejects (the RuntimeError of apply_param_overrides / apply_combination).
RECURSIVE apply_triples(_, _, _)
apply_triples(workflow, triples, k) ==
    IF k > Len(triples) THEN [ok |-> TRUE, workflow |-> workflow]
    ELSE LET set == set_param_value(workflow, triples[k].node, triples[k].param,
                                    triples[k].value)
         IN  IF ~set.ok THEN [ok |-> FALSE, workflow |-> workflow]
             ELSE apply_triples(set.workflow, triples, k + 1)

apply_param_overrides(workflow, config) ==
    apply_triples(workflow, OverrideTriples(config.param_overrides), 1)

apply_combination(workflow, combination) ==
    apply_triples(workflow, CombinationTriples(combination), 1)

\* A fallback on the first SaveImage node, however many there are.
set_output_prefix_first_save(workflow, filename_prefix, preferred_node_title) ==
    LET preferred == set_param_value(workflow, preferred_node_title,
                                     "filename_prefix", filename_prefix)
        save_nodes == SelectSeq(workflow.nodes,
                                LAMBDA node : node.class_type = "SaveImage")
        node_title == save_nodes[1].title
        sole == set_param_value(workflow, node_title, "filename_prefix",
                                filename_prefix)
    IN  IF preferred.ok THEN preferred
        ELSE IF Len(save_nodes) >= 1 /\ node_title # "" /\ sole.ok THEN sole
        ELSE [ok |-> FALSE, workflow |-> workflow]

\* set_output_prefix: the preferred title, else the sole SaveImage node.
set_output_prefix(workflow, filename_prefix, preferred_node_title) ==
    LET preferred == set_param_value(workflow, preferred_node_title,
                                     "filename_prefix", filename_prefix)
        save_nodes == SelectSeq(workflow.nodes,
                                LAMBDA node : node.class_type = "SaveImage")
        node_title == save_nodes[1].title
        sole == set_param_value(workflow, node_title, "filename_prefix",
                                filename_prefix)
    IN  IF preferred.ok THEN preferred
        ELSE IF Len(save_nodes) = 1 /\ node_title # "" /\ sole.ok THEN sole
        ELSE [ok |-> FALSE, workflow |-> workflow]

\* str(Path(config.output_folder) / "images" / filename)
OutputPrefix(output_folder, filename) ==
    JText(CharsOf(output_folder) \o <<"/">> \o Chars("images") \o <<"/">> \o filename)

\* response.strip().lower() in {"y", "yes"}, on the characters typed
IsSpace(c) == c \in {" ", "\t"}

RECURSIVE lstrip(_)
lstrip(text) ==
    IF text # <<>> /\ IsSpace(Head(text)) THEN lstrip(Tail(text)) ELSE text

RECURSIVE rstrip(_)
rstrip(text) ==
    IF text # <<>> /\ IsSpace(text[Len(text)])
    THEN rstrip(SubSeq(text, 1, Len(text) - 1)) ELSE text

strip(text) == rstrip(lstrip(text))

LowerChar(c) ==
    CASE c = "Y" -> "y" [] c = "E" -> "e" [] c = "S" -> "s"
      [] c = "N" -> "n" [] c = "O" -> "o" [] OTHER -> c

lower(text) == [i \in 1..Len(text) |-> LowerChar(text[i])]

\* A prompt that takes anything but a refusal for consent.
prompt_confirmation_unless_no(response) ==
    lower(strip(response)) \notin { <<"n">>, <<"n", "o">> }

prompt_confirmation(response) ==
    lower(strip(response)) \in { <<"y">>, <<"y", "e", "s">> }

\* sum(seconds_list)
RECURSIVE Sum(_)
Sum(seq) == IF seq = <<>> THEN 0 ELSE Head(seq) + Sum(Tail(seq))

\* estimate_eta: None, or average * remaining seconds held as the fraction
\* num / den.
estimate_eta(seconds_list, remaining) ==
    IF seconds_list = <<>> \/ remaining <= 0
    THEN [none |-> TRUE, num |-> 0, den |-> 1]
    ELSE [none |-> FALSE, num |-> Sum(seconds_list) * remaining,
          den |-> Len(seconds_list)]

(***************************************************************************)
(* Bounds and inputs of the model                                          *)
(***************************************************************************)
\* a minmax wedge of SpecLookup spans at most MaxSpan steps
MaxSpan == 8
\* --limit is None or 0..MaxLimit
MaxLimit == 3
\* seconds_total of a completed job is 0..MaxElapsed
MaxElapsed == 1
\* mutator calls of one configuration in SpecConfig
MaxCalls == 2
\* The largest magnitude of a wedge's start, stop and step.
MaxValue == 2

Entry3(a, b, c) == JList(<<a, b, c>>)
Wedge(param, values, kind) == Entry3(JStr(param), JList(values), JStr(kind))

\* param_wedges documents
WedgesNone == <<>>
WedgesOne ==
    << JItem("param_wedges", JDict(<<
         JItem("A", JList(<<Wedge("p", <<JInt(3), JInt(2)>>, "explicit")>>)) >>)) >>
\* declared B before A, and q's values differ only in an unsafe character
WedgesTwoNodes ==
    << JItem("param_wedges", JDict(<<
         JItem("B", JList(<<Wedge("q", <<JStr("x y"), JStr("x_y")>>, "explicit")>>)),
         JItem("A", JList(<<Wedge("p", <<JInt(0), JInt(1), JFloat(2)>>, "minmax")>>))
       >>)) >>
\* the legacy shape: param -> [node, values_spec, kind]
WedgesLegacy ==
    << JItem("param_wedges", JDict(<<
         JItem("q", Entry3(JStr("B"), JList(<<JInt(5), JInt(7)>>), JStr("explicit"))),
         JItem("p", Entry3(JStr("A"), JList(<<JInt(2), JInt(1), JInt(-1)>>),
                           JStr("minmax"))),
         JItem("r", Entry3(JStr("B"), JList(<<JBool(TRUE)>>), JStr("explicit")))
       >>)) >>
\* one (node, param) declared twice
WedgesRepeated ==
    << JItem("param_wedges", JDict(<<
         JItem("A", JList(<<Wedge("p", <<JInt(1), JInt(2)>>, "explicit"),
                            Wedge("p", <<JInt(3), JInt(4)>>, "explicit")>>)) >>)) >>
\* the second wedge cannot be expanded
WedgesZeroStep ==
    << JItem("param_wedges", JDict(<<
         JItem("A", JList(<<Wedge("p", <<JInt(1), JInt(2)>>, "explicit"),
                            Wedge("r", <<JInt(0), JInt(1), JInt(0)>>, "minmax")>>)) >>)) >>
WedgesEmptyExplicit ==
    << JItem("param_wedges", JDict(<<
         JItem("A", JList(<<Wedge("p", <<>>, "explicit")>>)) >>)) >>
\* a minmax of two numbers, in the node declared second
WedgesWrongArity ==
    << JItem("param_wedges", JDict(<<
         JItem("B", JList(<<Wedge("q", <<JInt(5), JInt(7)>>, "explicit")>>)),
         JItem("A", JList(<<Wedge("p", <<JInt(0), JInt(1)>>, "minmax")>>)) >>)) >>
\* a minmax that starts beyond its stop, declared first
WedgesNoValues ==
    << JItem("param_wedges", JDict(<<
         JItem("A", JList(<<Wedge("p", <<JInt(2), JInt(1), JInt(1)>>, "minmax"),
                            Wedge("r", <<JInt(3), JInt(4)>>, "explicit")>>)) >>)) >>
WedgesBadKind ==
    << JItem("param_wedges", JDict(<<
         JItem("A", JList(<<Wedge("p", <<JInt(1)>>, "linear")>>)) >>)) >>
WedgesEmptyNode ==
    << JItem("param_wedges", JDict(<<JItem("A", JList(<<>>))>>)) >>
\* legacy and current keys in one document
WedgesMixed ==
    << JItem("param_wedges", JDict(<<
         JItem("p", Entry3(JStr("A"), JList(<<JInt(1), JInt(2)>>), JStr("explicit"))),
         JItem("A", JList(<<Wedge("r", <<JInt(3), JInt(4)>>, "explicit")>>)) >>)) >>
\* the same two declarations, the current-shape key first
WedgesMixedCurrentFirst ==
    << JItem("param_wedges", JDict(<<
         JItem("A", JList(<<Wedge("r", <<JInt(3), JInt(4)>>, "explicit")>>)),
         JItem("p", Entry3(JStr("A"), JList(<<JInt(1), JInt(2)>>), JStr("explicit")))
       >>)) >>

\* param_overrides documents
OverridesNone == <<>>
OverridesDict ==
    << JItem("param_overrides", JDict(<<
         JItem("B", JList(<<JList(<<JStr("r"), JInt(7)>>)>>)),
         JItem("A", JList(<<JList(<<JStr("p"), JInt(9)>>),
                            JList(<<JStr("q"), JStr("x y")>>)>>)) >>)) >>
\* the legacy shape: [[node, param, value], ...]
OverridesLegacy ==
    << JItem("param_overrides", JList(<<
         Entry3(JStr("A"), JStr("q"), JInt(7)),
         Entry3(JStr("B"), JStr("r"), JInt(8)),
         Entry3(JStr("A"), JStr("p"), JInt(9)) >>)) >>
OverridesEmptyNode ==
    << JItem("param_overrides", JDict(<<JItem("A", JList(<<>>))>>)) >>
OverridesBadEntry ==
    << JItem("param_overrides", JDict(<<
         JItem("A", JList(<<JList(<<JStr("p")>>)>>)) >>)) >>
OverridesBadLegacy ==
    << JItem("param_overrides", JList(<<JList(<<JStr("A"), JStr("p")>>)>>)) >>

HeadGood ==
    << JItem("output_folder", JStr("out")), JItem("filename_prefix", JStr("img")),
       JItem("url", JStr("host")) >>
\* the legacy key project_name in place of output_folder
HeadLegacy ==
    << JItem("project_name", JStr("old")), JItem("filename_prefix", JStr("img")),
       JItem("url", JStr("host")) >>
HeadNoPrefix ==
    << JItem("output_folder", JStr("out")), JItem("url", JStr("host")) >>
\* an empty url
HeadEmptyUrl ==
    << JItem("output_folder", JStr("out")), JItem("filename_prefix", JStr("img")),
       JItem("url", JStr("")) >>
\* an output_folder that is not a string, beside a good project_name
HeadBadFolder ==
    << JItem("output_folder", JInt(5)), JItem("project_name", JStr("old")),
       JItem("filename_prefix", JStr("img")), JItem("url", JStr("host")) >>

Document(head, overrides, wedges) == JDict(head \o overrides \o wedges)

\* The documents a run of the submitter is given.
RunDocuments ==
    { Document(HeadGood, OverridesNone, WedgesNone),
      Document(HeadGood, OverridesDict, WedgesOne),
      Document(HeadGood, OverridesNone, WedgesTwoNodes),
      Document(HeadLegacy, OverridesLegacy, WedgesLegacy),
      Document(HeadGood, OverridesNone, WedgesRepeated),
      Document(HeadGood, OverridesNone, WedgesZeroStep),
      Document(HeadGood, OverridesLegacy, WedgesEmptyExplicit),
      Document(HeadGood, OverridesNone, WedgesWrongArity),
      Document(HeadGood, OverridesDict, WedgesNoValues),
      Document(HeadGood, OverridesNone, WedgesBadKind),
      Document(HeadNoPrefix, OverridesNone, WedgesOne),
      Document(HeadGood, OverridesBadEntry, WedgesOne) }

\* The documents the configuration model is given.
ConfigDocuments ==
    { Document(head, overrides, wedges) :
        head \in {HeadGood, HeadLegacy, HeadNoPrefix, HeadEmptyUrl, HeadBadFolder},
        overrides \in {OverridesNone, OverridesDict, OverridesLegacy,
                       OverridesEmptyNode, OverridesBadEntry, OverridesBadLegacy},
        wedges \in {WedgesNone, WedgesOne, WedgesTwoNodes, WedgesLegacy,
                    WedgesRepeated, WedgesZeroStep, WedgesEmptyExplicit,
                    WedgesBadKind, WedgesEmptyNode, WedgesMixed,
                    WedgesMixedCurrentFirst} }

\* Workflow files: the inputs of nodes A and B, and the SaveImage nodes.
Inputs(names) == JDict([i \in 1..Len(names) |-> JItem(names[i], JNull)])
NodeA == Node("A", "KSampler", Inputs(<<"p", "q", "r">>))
NodeB == Node("B", "Loader", Inputs(<<"q", "r">>))
SaveNode(title) == Node(title, "SaveImage", Inputs(<<"filename_prefix">>))

WorkflowFiles ==
    { \* the preferred output node
      Workflow(<<NodeA, NodeB, SaveNode("OUT_image")>>, {}),
      \* one SaveImage node under another title
      Workflow(<<NodeA, NodeB, SaveNode("Save")>>, {}),
      \* one SaveImage node without a title
      Workflow(<<NodeA, NodeB, SaveNode("")>>, {}),
      \* two SaveImage nodes, none preferred
      Workflow(<<NodeA, NodeB, SaveNode("Save"), SaveNode("Save2")>>, {}),
      \* no node B
      Workflow(<<NodeA, SaveNode("OUT_image")>>, {}),
      \* the template rejects some values
      Workflow(<<NodeA, NodeB, SaveNode("OUT_image")>>,
               { <<"A", "p", JInt(2)>>, <<"A", "p", JInt(1)>>, <<"B", "r", JInt(8)>> }) }

\* What the operator may type at the confirmation prompt.
Responses ==
    { <<"y">>, <<"y", "e", "s">>, <<" ", "Y", "E", "S">>,
      <<"n">>, <<>>, <<"y", "e", "s", "s">> }

\* The parsed command line.
Arguments ==
    [ limit_given : BOOLEAN, limit : 0..MaxLimit, dry_run : BOOLEAN,
      print_combinations : BOOLEAN, confirm : BOOLEAN, no_confirm : BOOLEAN,
      config_stdin : BOOLEAN, output_node : {"OUT_image"} ]

(***************************************************************************)
(* The run of the submitter (main) and the configuration under edit        *)
(***************************************************************************)
VARIABLES
    args,            \* the parsed command line
    files,           \* which of the workflow file and a config file exist
    data,            \* the configuration document (a file's or STDIN's)
    workflow_file,   \* the content of the workflow file
    pc,              \* where main is
    outcome,         \* how main ended: "" while it runs
    config,          \* main's WedgeConfig
    axes, total_runs, max_runs,
    idx,             \* the loop's index: assignments taken so far
    combinations_iter, \* items the current combinations_iter has yielded
    run_workflow,    \* the clone prepared for the current assignment
    base_workflow,
    elapsed_seconds,
    log,             \* what main reported, in order
    prompts,         \* the workflows handed to client.queue_prompt, in order
    asked,           \* the operator's answers to the confirmation prompt
    wc,              \* SpecConfig: the WedgeConfig under edit
    wc_data,         \* SpecConfig: the document it was loaded from
    wc_state,        \* SpecConfig: "none", "loaded", "reloaded" or "failed"
    wc_calls,        \* SpecConfig: mutator calls made
    ex_spec,         \* SpecExpand: the values_spec given to expand_wedge_values
    ex_kind,         \* SpecExpand: the wedge_type given
    ex_out,          \* SpecExpand: what the call returned or raised
    ex_pc,           \* SpecExpand: "idle", "ready", "done" or "estimated"
    ex_estimate,     \* SpecExpand: what _estimate_total_runs returned
    lk_spec,         \* SpecLookup: the [min, max, step] of a minmax wedge
    lk_sub,          \* SpecLookup: the submitter's expansion and names
    lk_view,         \* SpecLookup: the viewer's expansion and names
    lk_pc,           \* SpecLookup: "idle", "ready", "swept" or "viewed"
    st_spec,         \* SpecSteps: << start_f, stop_f, step_f >> in quarters
    st_current,      \* SpecSteps: current
    st_iterations,   \* SpecSteps: iterations
    st_len,          \* SpecSteps: len(result)
    st_last,         \* SpecSteps: result[-1], JNull while result is empty
    st_pc            \* SpecSteps: "idle", "loop", "returned", "overflow", "empty"

run_vars == << args, files, data, workflow_file, pc, outcome, config, axes,
               total_runs, max_runs, idx, combinations_iter, run_workflow, base_workflow,
               elapsed_seconds, log, prompts, asked >>
wc_vars == << wc, wc_data, wc_state, wc_calls >>
ex_vars == << ex_spec, ex_kind, ex_out, ex_pc, ex_estimate >>
lk_vars == << lk_spec, lk_sub, lk_view, lk_pc >>
st_vars == << st_spec, st_current, st_iterations, st_len, st_last, st_pc >>
fn_vars == << ex_vars, lk_vars, st_vars >>
vars == << run_vars, wc_vars, fn_vars >>

NoWorkflow == Workflow(<<>>, {})

LogLine(kind, index, of, combination) ==
    [kind |-> kind, idx |-> index, of |-> of, combination |-> combination,
     num |-> 0, den |-> 1]

EtaLine(index, eta) ==
    [kind |-> "eta", idx |-> index, of |-> 0, combination |-> JNull,
     num |-> eta.num, den |-> eta.den]

InitRun ==
    /\ args \in Arguments
    /\ ~args.limit_given => args.limit = 0
    /\ files \in [workflow : BOOLEAN, config : BOOLEAN]
    /\ data \in RunDocuments
    /\ workflow_file \in WorkflowFiles
    \* STDIN is read only when no config file is found
    /\ files.config => ~args.config_stdin
    \* a missing file is met under one command line and one document
    /\ (~files.workflow \/ ~files.config) =>
          /\ ~args.limit_given /\ ~args.dry_run /\ ~args.print_combinations
          /\ ~args.confirm /\ ~args.no_confirm
          /\ data = Document(HeadGood, OverridesNone, WedgesNone)
          /\ workflow_file = Workflow(<<NodeA, NodeB, SaveNode("OUT_image")>>, {})
    /\ pc = "parse_args"
    /\ outcome = ""
    /\ config = NoConfig
    /\ axes = <<>>
    /\ total_runs = 0
    /\ max_runs = 0
    /\ idx = 0
    /\ combinations_iter = 0
    /\ run_workflow = NoWorkflow
    /\ base_workflow = NoWorkflow
    /\ elapsed_seconds = <<>>
    /\ log = <<>>
    /\ prompts = <<>>
    /\ asked = <<>>

InitConfig ==
    /\ wc = NoConfig
    /\ wc_data = JDict(<<>>)
    /\ wc_state = "none"
    /\ wc_calls = 0

\* _estimate_total_runs was not called, or returned None.
NoEstimate == [none |-> TRUE, total |-> 0]

\* No call of expand_wedge_values has returned yet.
Pending == [ok |-> FALSE, val |-> JNull, err |-> "pending"]

\* expand_wedge_values is not called on its own.
InitNoExpansion ==
    /\ ex_spec = JList(<<>>)
    /\ ex_kind = JStr("")
    /\ ex_out = Pending
    /\ ex_pc = "idle"
    /\ ex_estimate = NoEstimate

\* Viewer and submitter are not compared.
InitNoLookup ==
    /\ lk_spec = <<>>
    /\ lk_sub = <<>>
    /\ lk_view = <<>>
    /\ lk_pc = "idle"

\* The loop of expand_wedge_values is not followed step by step.
InitNoSteps ==
    /\ st_spec = <<>>
    /\ st_current = 0
    /\ st_iterations = 0
    /\ st_len = 0
    /\ st_last = JNull
    /\ st_pc = "idle"

\* main returns or raises: nothing more happens.
Exit(how) ==
    /\ pc' = "exit"
    /\ outcome' = how

\* A parser that takes any limit.
ParseArgsAnyLimit ==
    /\ pc = "parse_args"
    /\ IF args.confirm /\ args.no_confirm
       THEN Exit("usage_error")
       ELSE pc' = "load_config" /\ UNCHANGED outcome
    /\ UNCHANGED << wc_vars, fn_vars, combinations_iter, args, files, data,
                    workflow_file, config, axes, total_runs,
                    max_runs, idx, run_workflow, base_workflow, elapsed_seconds,
                    log, prompts, asked >>

\* parse_args: parser.error on a limit <= 0 or on --confirm with --no-confirm.
ParseArgs ==
    /\ pc = "parse_args"
    /\ IF (args.limit_given /\ args.limit <= 0) \/ (args.confirm /\ args.no_confirm)
       THEN Exit("usage_error")
       ELSE pc' = "load_config" /\ UNCHANGED outcome
    /\ UNCHANGED << wc_vars, fn_vars, combinations_iter, args, files, data,
                    workflow_file, config, axes, total_runs,
                    max_runs, idx, run_workflow, base_workflow, elapsed_seconds,
                    log, prompts, asked >>

\* main, from the workflow path to the loaded config.
LoadConfig ==
    /\ pc = "load_config"
    /\ IF ~files.workflow THEN Exit("FileNotFoundError") /\ UNCHANGED config
       ELSE IF ~args.config_stdin /\ ~files.config
       THEN Exit("FileNotFoundError") /\ UNCHANGED config
       ELSE LET loaded == from_dict(data) IN
            IF ~loaded.ok THEN Exit("ValueError") /\ UNCHANGED config
            ELSE /\ config' = loaded.cfg
                 /\ pc' = "build_axes"
                 /\ UNCHANGED outcome
    /\ UNCHANGED << wc_vars, fn_vars, combinations_iter, args, files, data,
                    workflow_file, axes, total_runs,
                    max_runs, idx, run_workflow, base_workflow, elapsed_seconds,
                    log, prompts, asked >>

\* A clamp that takes the larger of the two.
MinTakesLarger(a, b) == IF a <= b THEN b ELSE a

\* min(max_runs, args.limit)
Min(a, b) == IF a <= b THEN a ELSE b

\* A call that hands back the iterator already in use.
iter_resumed(yielded) == yielded

\* iter_combinations(axes) is a generator function: each call makes an
\* iterator that has yielded nothing, whatever the one before it has.
iter_started(yielded) == 0

\* main: build the axes, count the runs, clamp to --limit.
BuildAxes ==
    /\ pc = "build_axes"
    /\ LET built == build_axes(config)
           total == IF built.axes # <<>> THEN prod_len(built.axes) ELSE 1
           clamped == IF args.limit_given THEN Min(total, args.limit) ELSE total
       IN  IF ~built.ok
           THEN Exit("AxisError")
                /\ UNCHANGED << axes, total_runs, max_runs, combinations_iter >>
           ELSE /\ axes' = built.axes
                /\ total_runs' = total
                /\ max_runs' = clamped
                /\ IF clamped <= 0
                   THEN Exit("no_combinations") /\ UNCHANGED combinations_iter
                   \* combinations_iter = iter_combinations(axes)
                   ELSE /\ pc' = "preview"
                        /\ combinations_iter' = iter_started(combinations_iter)
                        /\ UNCHANGED outcome
    /\ UNCHANGED << wc_vars, fn_vars, args, files, data, workflow_file, config, idx, run_workflow,
                    base_workflow, elapsed_seconds, log, prompts, asked >>

\* A listing that reports each index against the clamped count.
ListingAgainstClamped ==
    LET combinations == iter_combinations(axes)
        left == Len(combinations) - combinations_iter
        listed == IF max_runs >= left THEN left ELSE max_runs
    IN  [i \in 1..listed |->
            LogLine("listing", i, max_runs, combinations[combinations_iter + i])]

\* The listing of --print-combinations / --dry-run: enumerate(..., 1) until
\* idx >= max_runs.
Listing ==
    LET combinations == iter_combinations(axes)
        left == Len(combinations) - combinations_iter
        listed == IF max_runs >= left THEN left ELSE max_runs
    IN  [i \in 1..listed |->
            LogLine("listing", i, total_runs, combinations[combinations_iter + i])]

Preview ==
    /\ pc = "preview"
    /\ IF args.print_combinations \/ args.dry_run
       THEN /\ log' = log \o Listing
            /\ IF args.dry_run
               THEN /\ Exit("dry_run")
                    /\ combinations_iter' = combinations_iter + Len(Listing)
               \* combinations_iter = iter_combinations(axes)
               ELSE /\ pc' = "confirm"
                    /\ combinations_iter' =
                           iter_started(combinations_iter + Len(Listing))
                    /\ UNCHANGED outcome
       ELSE /\ pc' = "confirm"
            /\ UNCHANGED << log, outcome, combinations_iter >>
    /\ UNCHANGED << wc_vars, fn_vars, args, files, data, workflow_file, config, axes, total_runs,
                    max_runs, idx, run_workflow, base_workflow, elapsed_seconds,
                    prompts, asked >>

\* main: the confirmation gate.
Confirm ==
    /\ pc = "confirm"
    /\ IF args.confirm /\ ~args.no_confirm
       THEN \/ \E response \in Responses :
                  /\ asked' = Append(asked, response)
                  /\ IF prompt_confirmation(response)
                     THEN pc' = "open_workflow" /\ UNCHANGED outcome
                     ELSE Exit("cancelled")
            \* input() at the end of standard input raises EOFError
            \/ Exit("EOFError") /\ UNCHANGED asked
       ELSE /\ pc' = "open_workflow"
            /\ UNCHANGED << asked, outcome >>
    /\ UNCHANGED << wc_vars, fn_vars, combinations_iter, args, files, data,
                    workflow_file, config, axes, total_runs,
                    max_runs, idx, run_workflow, base_workflow, elapsed_seconds,
                    log, prompts >>

\* main: load the base workflow, attach the sweep metadata, open the client.
OpenWorkflow ==
    /\ pc = "open_workflow"
    /\ base_workflow' = update_adhoc_metadata(workflow_file, "wedge_config",
                                               to_dict(config))
    /\ elapsed_seconds' = <<>>
    \* combinations_iter = iter_combinations(axes)
    /\ combinations_iter' = iter_started(combinations_iter)
    /\ pc' = "next_combination"
    /\ UNCHANGED << wc_vars, fn_vars, args, files, data, workflow_file, outcome, config, axes,
                    total_runs, max_runs, idx, run_workflow, log, prompts, asked >>

\* The metadata of one iteration.
IterationMetadata(index, of, combination) ==
    JDict(<< JItem("index", JInt(index)), JItem("of", JInt(of)),
             JItem("combination", combination) >>)

\* A loop body that applies the combination first and the overrides after.
PreparedOverridesLast(index, combination) ==
    LET applied == apply_combination(base_workflow, combination)
        overridden == apply_param_overrides(applied.workflow, config)
        tagged == update_adhoc_metadata(overridden.workflow, "wedge_iteration",
                      IterationMetadata(index, max_runs, combination))
        filename == build_filename(config.filename_prefix, combination)
        named == set_output_prefix(tagged,
                     OutputPrefix(config.output_folder, filename), args.output_node)
    IN  IF ~overridden.ok \/ ~applied.ok
        THEN [ok |-> FALSE, err |-> "ApplyError", workflow |-> NoWorkflow]
        ELSE IF ~named.ok
        THEN [ok |-> FALSE, err |-> "AmbiguousOutputError", workflow |-> NoWorkflow]
        ELSE [ok |-> TRUE, err |-> "", workflow |-> named.workflow]

\* The loop body up to the submission: clone, overrides, combination,
\* metadata, output name.
Prepared(index, combination) ==
    LET overridden == apply_param_overrides(base_workflow, config)
        applied == apply_combination(overridden.workflow, combination)
        tagged == update_adhoc_metadata(applied.workflow, "wedge_iteration",
                      IterationMetadata(index, max_runs, combination))
        filename == build_filename(config.filename_prefix, combination)
        named == set_output_prefix(tagged,
                     OutputPrefix(config.output_folder, filename), args.output_node)
    IN  IF ~overridden.ok \/ ~applied.ok
        THEN [ok |-> FALSE, err |-> "ApplyError", workflow |-> NoWorkflow]
        ELSE IF ~named.ok
        THEN [ok |-> FALSE, err |-> "AmbiguousOutputError", workflow |-> NoWorkflow]
        ELSE [ok |-> TRUE, err |-> "", workflow |-> named.workflow]

\* A loop that prepares the base template itself, without a clone.
NextCombinationInPlace ==
    /\ pc = "next_combination"
    /\ LET combinations == iter_combinations(axes)
           index == idx + 1
           position == combinations_iter + 1
       IN  IF position > Len(combinations)
           \* the iterator is exhausted
           THEN /\ Exit("done")
                /\ UNCHANGED << combinations_iter, idx, run_workflow, base_workflow, log >>
           ELSE /\ combinations_iter' = position
                /\ IF index > max_runs
                   THEN Exit("done") /\ UNCHANGED << idx, run_workflow, base_workflow, log >>
                   ELSE LET prepared == Prepared(index, combinations[position]) IN
                        /\ idx' = index
                        /\ IF ~prepared.ok
                           THEN Exit(prepared.err) /\ UNCHANGED << run_workflow, base_workflow, log >>
                           ELSE /\ run_workflow' = prepared.workflow
                                /\ base_workflow' = prepared.workflow
                                /\ log' = Append(log, LogLine("submitting", index, max_runs,
                                                              combinations[position]))
                                /\ pc' = "queue_prompt"
                                /\ UNCHANGED outcome
    /\ UNCHANGED << wc_vars, fn_vars, args, files, data, workflow_file, config, axes, total_runs,
                    max_runs, elapsed_seconds, prompts, asked >>

\* A loop that reports a submission against the number of all combinations.
NextCombinationAgainstTotal ==
    /\ pc = "next_combination"
    /\ LET combinations == iter_combinations(axes)
           index == idx + 1
           position == combinations_iter + 1
       IN  IF position > Len(combinations)
           \* the iterator is exhausted
           THEN /\ Exit("done")
                /\ UNCHANGED << combinations_iter, idx, run_workflow, log >>
           ELSE /\ combinations_iter' = position
                /\ IF index > max_runs
                   THEN Exit("done") /\ UNCHANGED << idx, run_workflow, log >>
                   ELSE LET prepared == Prepared(index, combinations[position]) IN
                        /\ idx' = index
                        /\ IF ~prepared.ok
                           THEN Exit(prepared.err) /\ UNCHANGED << run_workflow, log >>
                           ELSE /\ run_workflow' = prepared.workflow
                                /\ log' = Append(log, LogLine("submitting", index, total_runs,
                                                              combinations[position]))
                                /\ pc' = "queue_prompt"
                                /\ UNCHANGED outcome
    /\ UNCHANGED << wc_vars, fn_vars, args, files, data, workflow_file, config, axes, total_runs,
                    max_runs, base_workflow, elapsed_seconds, prompts, asked >>

\* A loop without "if idx > max_runs: break".
NextCombinationUnclamped ==
    /\ pc = "next_combination"
    /\ LET combinations == iter_combinations(axes)
           index == idx + 1
           position == combinations_iter + 1
       IN  IF position > Len(combinations)
           THEN /\ Exit("done")
                /\ UNCHANGED << combinations_iter, idx, run_workflow, log >>
           ELSE LET prepared == Prepared(index, combinations[position]) IN
                /\ combinations_iter' = position
                /\ idx' = index
                /\ IF ~prepared.ok
                   THEN Exit(prepared.err) /\ UNCHANGED << run_workflow, log >>
                   ELSE /\ run_workflow' = prepared.workflow
                        /\ log' = Append(log, LogLine("submitting", index, max_runs,
                                                      combinations[position]))
                        /\ pc' = "queue_prompt"
                        /\ UNCHANGED outcome
    /\ UNCHANGED << wc_vars, fn_vars, args, files, data, workflow_file, config, axes, total_runs,
                    max_runs, base_workflow, elapsed_seconds, prompts, asked >>

\* main: the head of the for loop and the preparation of the next run.
NextCombination ==
    /\ pc = "next_combination"
    /\ LET combinations == iter_combinations(axes)
           index == idx + 1
           position == combinations_iter + 1
       IN  IF position > Len(combinations)
           \* the iterator is exhausted
           THEN /\ Exit("done")
                /\ UNCHANGED << combinations_iter, idx, run_workflow, log >>
           ELSE /\ combinations_iter' = position
                /\ IF index > max_runs
                   THEN Exit("done") /\ UNCHANGED << idx, run_workflow, log >>
                   ELSE LET prepared == Prepared(index, combinations[position]) IN
                        /\ idx' = index
                        /\ IF ~prepared.ok
                           THEN Exit(prepared.err) /\ UNCHANGED << run_workflow, log >>
                           ELSE /\ run_workflow' = prepared.workflow
                                /\ log' = Append(log, LogLine("submitting", index, max_runs,
                                                              combinations[position]))
                                /\ pc' = "queue_prompt"
                                /\ UNCHANGED outcome
    /\ UNCHANGED << wc_vars, fn_vars, args, files, data, workflow_file, config, axes, total_runs,
                    max_runs, base_workflow, elapsed_seconds, prompts, asked >>

\* A submission made again when the job comes back without a prompt_id.
QueuePromptRetried ==
    /\ pc = "queue_prompt"
    /\ prompts' = Append(prompts, run_workflow)
    /\ \E answer \in {"prompt_id", "no_prompt_id", "error"} :
          CASE answer = "prompt_id" -> pc' = "stream_until_done" /\ UNCHANGED outcome
            [] answer = "no_prompt_id" -> UNCHANGED << pc, outcome >>
            [] answer = "error" -> Exit("ExecutorError")
    /\ UNCHANGED << wc_vars, fn_vars, combinations_iter, args, files, data,
                    workflow_file, config, axes, total_runs,
                    max_runs, idx, run_workflow, base_workflow, elapsed_seconds,
                    log, asked >>

\* client.queue_prompt: a job with a prompt_id, a job without, or an error.
QueuePrompt ==
    /\ pc = "queue_prompt"
    /\ prompts' = Append(prompts, run_workflow)
    /\ \E answer \in {"prompt_id", "no_prompt_id", "error"} :
          CASE answer = "prompt_id" -> pc' = "stream_until_done" /\ UNCHANGED outcome
            [] answer = "no_prompt_id" -> Exit("NoPromptId")
            [] answer = "error" -> Exit("ExecutorError")
    /\ UNCHANGED << wc_vars, fn_vars, combinations_iter, args, files, data,
                    workflow_file, config, axes, total_runs,
                    max_runs, idx, run_workflow, base_workflow, elapsed_seconds,
                    log, asked >>

\* A loop that submits the next run without awaiting this one.
StreamUntilDoneNotAwaited ==
    /\ pc = "stream_until_done"
    /\ pc' = "next_combination"
    /\ UNCHANGED << wc_vars, fn_vars, combinations_iter, args, files, data,
                    workflow_file, outcome, config, axes,
                    total_runs, max_runs, idx, run_workflow, base_workflow,
                    elapsed_seconds, log, prompts, asked >>

\* asyncio.run(client.stream_until_done(...)): the history, or an error.
StreamUntilDone ==
    /\ pc = "stream_until_done"
    /\ \E answer \in {"history", "error"} :
          IF answer = "history" THEN pc' = "record" /\ UNCHANGED outcome
          ELSE Exit("ExecutorError")
    /\ UNCHANGED << wc_vars, fn_vars, combinations_iter, args, files, data,
                    workflow_file, config, axes, total_runs,
                    max_runs, idx, run_workflow, base_workflow, elapsed_seconds,
                    log, prompts, asked >>

\* An ETA taken from the durations recorded before this completion.
RecordElapsedStaleEta ==
    /\ pc = "record"
    /\ \E seconds_total \in 0..MaxElapsed :
          LET recorded == Append(elapsed_seconds, seconds_total)
              eta == estimate_eta(elapsed_seconds, max_runs - idx)
              completed == LogLine("completed", idx, max_runs, JNull)
          IN  /\ elapsed_seconds' = recorded
              /\ log' = IF ~eta.none /\ eta.num # 0
                        THEN log \o <<completed, EtaLine(idx, eta)>>
                        ELSE Append(log, completed)
    /\ pc' = "next_combination"
    /\ UNCHANGED << wc_vars, fn_vars, combinations_iter, args, files, data,
                    workflow_file, outcome, config, axes,
                    total_runs, max_runs, idx, run_workflow, base_workflow,
                    prompts, asked >>

\* main: record the elapsed time, report the completion and the ETA.
RecordElapsed ==
    /\ pc = "record"
    /\ \E seconds_total \in 0..MaxElapsed :
          LET recorded == Append(elapsed_seconds, seconds_total)
              eta == estimate_eta(recorded, max_runs - idx)
              completed == LogLine("completed", idx, max_runs, JNull)
          IN  /\ elapsed_seconds' = recorded
              /\ log' = IF ~eta.none /\ eta.num # 0
                        THEN log \o <<completed, EtaLine(idx, eta)>>
                        ELSE Append(log, completed)
    /\ pc' = "next_combination"
    /\ UNCHANGED << wc_vars, fn_vars, combinations_iter, args, files, data,
                    workflow_file, outcome, config, axes,
                    total_runs, max_runs, idx, run_workflow, base_workflow,
                    prompts, asked >>

Next ==
    \/ ParseArgs
    \/ LoadConfig
    \/ BuildAxes
    \/ Preview
    \/ Confirm
    \/ OpenWorkflow
    \/ NextCombination
    \/ QueuePrompt
    \/ StreamUntilDone
    \/ RecordElapsed

Init == InitRun /\ InitConfig /\ InitNoExpansion /\ InitNoLookup /\ InitNoSteps

Spec == Init /\ [][Next]_vars

\* Where main can be, and the places where it waits for someone else.
Phases == {"parse_args", "load_config", "build_axes", "preview", "confirm",
           "open_workflow", "next_combination", "queue_prompt",
           "stream_until_done", "record", "exit"}

\* Every step of main leaves the place it is at, so a step from a place is
\* a change of pc.  main is one sequential program and takes its next step
\* whenever it has one (MainProceeds); at the confirmation prompt it waits
\* for the operator, who answers (OperatorAnswers); on a submission and on
\* the await of a job it waits for the executor, which answers every
\* submission and reports the end, or the failure, of every job
\* (ExecutorReports).
MovesFrom(places) == pc \in places /\ pc' \in Phases /\ pc' # pc

OperatorAnswers == MovesFrom({"confirm"})

ExecutorReports == MovesFrom({"queue_prompt", "stream_until_done"})

MainProceeds ==
    MovesFrom(Phases \ {"confirm", "queue_prompt", "stream_until_done", "exit"})

SpecFair ==
    /\ Spec
    /\ WF_pc(MainProceeds)
    /\ WF_pc(OperatorAnswers)
    /\ WF_pc(ExecutorReports)

(***************************************************************************)
(* SpecConfig: a WedgeConfig loaded from a document, edited with the       *)
(* mutators, saved and loaded again                                        *)
(***************************************************************************)
\* The arguments the mutators are called with.
MutatorNodes == {"A", "B"}
MutatorParams == {"p", "q"}
MutatorValues == {JInt(1)}
MutatorWedges == { [values |-> <<JInt(1), JInt(2)>>, kind |-> "explicit"],
                   [values |-> <<JInt(0), JInt(1), JInt(1)>>, kind |-> "linear"] }

\* main does not run in SpecConfig.
InitIdle ==
    /\ args = [limit_given |-> FALSE, limit |-> 0, dry_run |-> FALSE,
               print_combinations |-> FALSE, confirm |-> FALSE,
               no_confirm |-> FALSE, config_stdin |-> FALSE,
               output_node |-> "OUT_image"]
    /\ files = [workflow |-> TRUE, config |-> TRUE]
    /\ data = JDict(<<>>)
    /\ workflow_file = NoWorkflow
    /\ pc = "idle"
    /\ outcome = ""
    /\ config = NoConfig
    /\ axes = <<>>
    /\ total_runs = 0
    /\ max_runs = 0
    /\ idx = 0
    /\ combinations_iter = 0
    /\ run_workflow = NoWorkflow
    /\ base_workflow = NoWorkflow
    /\ elapsed_seconds = <<>>
    /\ log = <<>>
    /\ prompts = <<>>
    /\ asked = <<>>

\* WedgeConfig.from_dict / load_from_file on a document
CfgLoad ==
    /\ wc_state = "none"
    /\ \E d \in ConfigDocuments :
          LET loaded == from_dict(d) IN
          /\ wc_data' = d
          /\ wc' = loaded.cfg
          /\ wc_state' = IF loaded.ok THEN "loaded" ELSE "failed"
    /\ UNCHANGED << run_vars, fn_vars, wc_calls >>

CfgSetParamOverride ==
    /\ wc_state \in {"loaded", "reloaded"} /\ wc_calls < MaxCalls
    /\ \E node_name \in MutatorNodes, param \in MutatorParams, value \in MutatorValues :
          wc' = set_param_override(wc, node_name, param, value)
    /\ wc_calls' = wc_calls + 1
    /\ wc_state' = "loaded"
    /\ UNCHANGED << run_vars, fn_vars, wc_data >>

CfgRemoveParamOverride ==
    /\ wc_state \in {"loaded", "reloaded"} /\ wc_calls < MaxCalls
    /\ \E node_name \in MutatorNodes, param \in MutatorParams :
          wc' = remove_param_override(wc, node_name, param)
    /\ wc_calls' = wc_calls + 1
    /\ wc_state' = "loaded"
    /\ UNCHANGED << run_vars, fn_vars, wc_data >>

\* set_param_wedge raises on an unsupported wedge_type and changes nothing.
CfgSetParamWedge ==
    /\ wc_state \in {"loaded", "reloaded"} /\ wc_calls < MaxCalls
    /\ \E node_name \in MutatorNodes, param \in MutatorParams, w \in MutatorWedges :
          wc' = IF w.kind \notin {"minmax", "explicit"} THEN wc
                ELSE set_param_wedge(wc, node_name, param, w.values, w.kind)
    /\ wc_calls' = wc_calls + 1
    /\ wc_state' = "loaded"
    /\ UNCHANGED << run_vars, fn_vars, wc_data >>

CfgRemoveParamWedge ==
    /\ wc_state \in {"loaded", "reloaded"} /\ wc_calls < MaxCalls
    /\ \E node_name \in MutatorNodes, param \in MutatorParams :
          wc' = remove_param_wedge(wc, node_name, param)
    /\ wc_calls' = wc_calls + 1
    /\ wc_state' = "loaded"
    /\ UNCHANGED << run_vars, fn_vars, wc_data >>

\* save_to_file, then load_from_file of what was saved
CfgSaveAndLoad ==
    /\ wc_state \in {"loaded", "reloaded"}
    /\ LET loaded == from_dict(to_dict(wc)) IN
          /\ wc' = loaded.cfg
          /\ wc_state' = IF loaded.ok THEN "reloaded" ELSE "failed"
    /\ UNCHANGED << run_vars, fn_vars, wc_data, wc_calls >>

NextConfig ==
    \/ CfgLoad
    \/ CfgSetParamOverride
    \/ CfgRemoveParamOverride
    \/ CfgSetParamWedge
    \/ CfgRemoveParamWedge
    \/ CfgSaveAndLoad

InitConfigOnly == InitIdle /\ InitConfig /\ InitNoExpansion /\ InitNoLookup /\ InitNoSteps

SpecConfig == InitConfigOnly /\ [][NextConfig]_vars

(***************************************************************************)
(* expand_wedge_values on its own: any [start, stop, step] of small        *)
(* numbers, as a minmax or as an explicit wedge                            *)
(***************************************************************************)
\* The numbers of a wedge: ints, and floats by their quarters.
WedgeNumbers ==
    { JInt(i) : i \in (0 - MaxValue)..MaxValue }
        \cup { JFloat(q) : q \in (0 - MaxValue * FloatScale)..(MaxValue * FloatScale) }

InitExpand ==
    /\ InitIdle
    /\ InitConfig
    /\ InitNoLookup
    /\ InitNoSteps
    /\ \E start \in WedgeNumbers, stop \in WedgeNumbers, step \in WedgeNumbers :
          ex_spec = JList(<<start, stop, step>>)
    /\ ex_kind \in { JStr("minmax"), JStr("explicit") }
    /\ ex_out = Pending
    /\ ex_pc = "ready"
    /\ ex_estimate = NoEstimate

ExpandWedge ==
    /\ ex_pc = "ready"
    /\ ex_out' = expand_wedge_values(ex_spec, ex_kind)
    /\ ex_pc' = "done"
    /\ UNCHANGED << run_vars, wc_vars, lk_vars, st_vars, ex_spec, ex_kind, ex_estimate >>

\* The submitter UI estimates the runs of a configuration whose one wedge is
\* A.p with the same values_spec and kind.
EstimateTotalRuns ==
    /\ ex_pc = "done"
    /\ ex_estimate' = estimate_total_runs(
           JDict(<< JItem("A", JList(<< JList(<<JStr("p"), ex_spec, ex_kind>>) >>)) >>))
    /\ ex_pc' = "estimated"
    /\ UNCHANGED << run_vars, wc_vars, lk_vars, st_vars, ex_spec, ex_kind, ex_out >>

NextExpand ==
    \/ ExpandWedge
    \/ EstimateTotalRuns

SpecExpand == InitExpand /\ [][NextExpand]_vars

(***************************************************************************)
(* SpecLookup: the viewer (view_wedges.py) against the submitter on one    *)
(* minmax wedge. Both round a value to 10 decimals before they decide      *)
(* whether it is a whole number, so a number is held here to 10 decimals:  *)
(* a units of 10^-5 and b units of 10^-10, 0 <= b < Limb.                  *)
(***************************************************************************)
\* round(current, 10): ten decimals, in two limbs of five digits.
Limb == 100000

Num(t, a, b) == [t |-> t, a |-> a, b |-> b]
NumInt(n) == Num("int", n * Limb, 0)
\* the float w + hi / 10^5 + lo / 10^10
NumFloat(w, hi, lo) == Num("float", w * Limb + hi, lo)

NumAdd(x, y) ==
    Num("float", x.a + y.a + (x.b + y.b) \div Limb, (x.b + y.b) % Limb)
NumNeg(x) ==
    IF x.b = 0 THEN Num(x.t, 0 - x.a, 0) ELSE Num(x.t, 0 - x.a - 1, Limb - x.b)
NumSub(x, y) == NumAdd(x, NumNeg(y))
NumLess(x, y) == x.a < y.a \/ (x.a = y.a /\ x.b < y.b)
NumIsZero(x) == x.a = 0 /\ x.b = 0
NumAbs(x) == IF x.a < 0 THEN NumNeg(x) ELSE x
NumMax(x, y) == IF NumLess(x, y) THEN y ELSE x

\* The largest number of 10^-10 units not above m * 1e-9, as a number.
Billionth(m) ==
    LET units == m.a \div 10000 IN Num("float", units \div Limb, units % Limb)

\* round(rounded): the nearest whole number, the even one of two.
NumRound(x) ==
    LET whole == x.a \div Limb
        frac == Num("float", x.a % Limb, x.b)
        half == Num("float", Limb \div 2, 0)
    IN  IF NumLess(frac, half) THEN whole
        ELSE IF NumLess(half, frac) THEN whole + 1
        ELSE IF whole % 2 = 0 THEN whole ELSE whole + 1

\* abs(rounded - round(rounded))
OffWhole(x) == NumAbs(NumSub(x, NumInt(NumRound(x))))

\* math.isclose(a, b): abs(a - b) <= 1e-09 * max(abs(a), abs(b))
isclose(x, y) ==
    ~NumLess(Billionth(NumMax(NumAbs(x), NumAbs(y))), NumAbs(NumSub(x, y)))

\* The submitter's _coerce_numeric of a float.
coerce_numeric_float(rounded) ==
    IF isclose(rounded, NumInt(NumRound(rounded))) THEN NumInt(NumRound(rounded))
    ELSE rounded

\* The viewer's coercion: abs(rounded - round(rounded)) < 1e-10
coerce_near_integer(rounded) ==
    IF NumIsZero(OffWhole(rounded)) THEN NumInt(NumRound(rounded)) ELSE rounded

\* float(x) of an int or a float
NumAsFloat(x) == Num("float", x.a, x.b)

\* "current > stop_f + tolerance" (step_f > 0), "current < stop_f - tolerance"
\* otherwise, with tolerance = abs(step_f) * 1e-9: the test of both loops.
PastStop(current, stop_f, step_f) ==
    LET tolerance == Billionth(NumAbs(step_f)) IN
    IF step_f.a >= 0 THEN NumLess(tolerance, NumSub(current, stop_f))
    ELSE NumLess(tolerance, NumSub(stop_f, current))

\* The submitter's loop: expand_wedge_values of a minmax wedge.
RECURSIVE expand_wedge_loop(_, _, _, _, _)
expand_wedge_loop(current, stop_f, step_f, result, iterations) ==
    IF PastStop(current, stop_f, step_f)
    THEN [ok |-> result # <<>>, values |-> result]
    ELSE IF iterations + 1 > max_iterations THEN [ok |-> FALSE, values |-> <<>>]
    ELSE expand_wedge_loop(NumAdd(current, step_f), stop_f, step_f,
                           Append(result, coerce_numeric_float(current)),
                           iterations + 1)

expand_wedge_minmax(start, stop, step) ==
    IF NumIsZero(step) THEN [ok |-> FALSE, values |-> <<>>]
    ELSE expand_wedge_loop(NumAsFloat(start), NumAsFloat(stop), NumAsFloat(step),
                           <<>>, 0)

guard_limit == 100000

\* The viewer's loop: it stops, with what it has, once guard > 100000.
RECURSIVE expand_minmax_loop(_, _, _, _, _)
expand_minmax_loop(current, stop, stepf, values, guard) ==
    IF PastStop(current, stop, stepf) THEN values
    ELSE IF guard + 1 > guard_limit
    THEN Append(values, coerce_near_integer(current))
    ELSE expand_minmax_loop(NumAdd(current, stepf), stop, stepf,
                            Append(values, coerce_near_integer(current)), guard + 1)

expand_minmax(min_val, max_val, step) ==
    IF NumIsZero(step) THEN <<>>
    ELSE expand_minmax_loop(NumAsFloat(min_val), NumAsFloat(max_val),
                            NumAsFloat(step), <<>>, 0)

RECURSIVE Pow10(_)
Pow10(n) == IF n = 0 THEN 1 ELSE 10 * Pow10(n - 1)

\* The five digits of one limb.
LimbText(n) == [i \in 1..5 |-> Digit((n \div Pow10(5 - i)) % 10)]

RECURSIVE StripZerosRight(_)
StripZerosRight(text) ==
    IF text # <<>> /\ text[Len(text)] = "0"
    THEN StripZerosRight(SubSeq(text, 1, Len(text) - 1)) ELSE text

RECURSIVE StripZerosLeft(_)
StripZerosLeft(text) ==
    IF text # <<>> /\ Head(text) = "0" THEN StripZerosLeft(Tail(text)) ELSE text

\* f"{value:.10g}" of a positive float: ten significant digits, trailing
\* zeros dropped, an exponent when the value is below 0.0001.
GeneralText(m) ==
    LET w == m.a \div Limb
        f1 == m.a % Limb
        digits == LimbText(f1) \o LimbText(m.b)
    IN  IF w = 0
        THEN LET significant == StripZerosLeft(digits)
                 zeros == Len(digits) - Len(significant)
                 mantissa == StripZerosRight(significant)
             IN  IF zeros < 4 THEN <<"0", ".">> \o StripZerosRight(digits)
                 ELSE <<Head(mantissa)>>
                      \o (IF Len(mantissa) > 1 THEN <<".">> \o Tail(mantissa) ELSE <<>>)
                      \o <<"e", "-">>
                      \o (IF zeros + 1 < 10 THEN <<"0">> ELSE <<>>) \o NatText(zeros + 1)
        ELSE LET q == Pow10(Len(NatText(w)))
                 kept == ((m.b + q \div 2) \div q) * q
                 low == kept % Limb
                 high == (f1 + kept \div Limb) % Limb
                 whole == w + (f1 + kept \div Limb) \div Limb
                 decimals == StripZerosRight(LimbText(high) \o LimbText(low))
             IN  NatText(whole) \o (IF decimals = <<>> THEN <<>> ELSE <<".">> \o decimals)

\* stringify_value, the same in both programs: str(value) of an int,
\* f"{value:.10g}".rstrip(".") of a float.
NumText(x) ==
    IF x.t = "int" THEN IntText(x.a \div Limb)
    ELSE IF NumIsZero(x) THEN <<"0">>
    ELSE IF x.a < 0 THEN <<"-">> \o GeneralText(NumNeg(x))
    ELSE GeneralText(x)

\* sanitize_value, the same in both programs.
NumToken(x) ==
    LET text == NumText(x)
    IN  [i \in 1..Len(text) |-> IF text[i] \in Unsafe THEN "_" ELSE text[i]]

\* The base name of the one-wedge assignment {node: {param: value}}:
\* build_filename in the submitter, update_image_display in the viewer.
BaseName(prefix, node, param, x) ==
    Join(<<"_", "_">>,
         << Chars(prefix), Chars(node) \o <<"-">> \o Chars(param) \o <<"-">> \o NumToken(x) >>)

\* The numbers a minmax wedge is declared with: whole ones, quarters, and
\* floats a little off a whole number.
LookupStarts ==
    { NumInt(1), NumInt(12345), NumFloat(0, 25000, 0), NumFloat(1, 50000, 0),
      NumFloat(1, 0, 1), NumFloat(12345, 1, 0) }
LookupStops ==
    { NumInt(0), NumInt(2), NumInt(3), NumInt(12346), NumFloat(2, 50000, 0),
      NumFloat(12347, 25000, 0) }
LookupSteps ==
    { NumInt(0), NumInt(1), NumInt(-1), NumFloat(0, 50000, 0), NumFloat(0, 75000, 0),
      NumFloat(1, 25000, 0) }

InitLookup ==
    /\ InitIdle
    /\ InitConfig
    /\ InitNoExpansion
    /\ InitNoSteps
    /\ \E start \in LookupStarts, stop \in LookupStops, step \in LookupSteps :
          \* at most MaxSpan steps from start to stop
          /\ Abs(stop.a - start.a) <= MaxSpan * Abs(step.a)
          /\ lk_spec = <<start, stop, step>>
    /\ lk_sub = <<>>
    /\ lk_view = <<>>
    /\ lk_pc = "ready"

\* The names of the values of the wedge A.p under the prefix "img".
LookupNames(values) ==
    [i \in 1..Len(values) |-> BaseName("img", "A", "p", values[i])]

\* The submitter: build_axes expands the wedge, build_filename names each
\* assignment.
SubmitterExpands ==
    /\ lk_pc = "ready"
    /\ LET expanded == expand_wedge_minmax(lk_spec[1], lk_spec[2], lk_spec[3])
       IN  lk_sub' = [ok |-> expanded.ok, values |-> expanded.values,
                      names |-> LookupNames(expanded.values)]
    /\ lk_pc' = "swept"
    /\ UNCHANGED << run_vars, wc_vars, ex_vars, st_vars, lk_spec, lk_view >>

\* The viewer: _flatten_wedges expands the wedge of the metadata,
\* update_image_display names the file of each selection.
ViewerExpands ==
    /\ lk_pc = "swept"
    /\ LET values == expand_minmax(lk_spec[1], lk_spec[2], lk_spec[3])
       IN  lk_view' = [values |-> values, names |-> LookupNames(values)]
    /\ lk_pc' = "viewed"
    /\ UNCHANGED << run_vars, wc_vars, ex_vars, st_vars, lk_spec, lk_sub >>

NextLookup ==
    \/ SubmitterExpands
    \/ ViewerExpands

SpecLookup == InitLookup /\ [][NextLookup]_vars

(***************************************************************************)
(* SpecSteps: the while loop of expand_wedge_values, one pass per step, on *)
(* triples that need about max_iterations values.  result is held by its   *)
(* length and its last element                                             *)
(***************************************************************************)
\* How far above and below max_iterations the counts of the triples go.
MaxOver == 1

\* The values a triple needs: the k >= 0 with start_f + k * step_f not
\* beyond stop_f.
ValuesNeeded(start_f, stop_f, step_f) ==
    IF BeyondStop(start_f, stop_f, step_f) THEN 0
    ELSE (Abs(stop_f - start_f) \div Abs(step_f)) + 1

\* [0, n, 1] and [n, 0, -1] for n about max_iterations, and a few short
\* and empty triples, in quarters.
StepTriples ==
    { << 0, n * FloatScale, FloatScale >> :
          n \in (max_iterations - 1 - MaxOver)..(max_iterations - 1 + MaxOver) }
    \cup { << n * FloatScale, 0, 0 - FloatScale >> :
          n \in (max_iterations - 1 - MaxOver)..(max_iterations - 1 + MaxOver) }
    \cup { << a, b, c >> : a \in 0..MaxOver, b \in 0..(FloatScale + MaxOver),
                           c \in {0 - 1, 1, FloatScale} }

InitSteps ==
    /\ InitIdle
    /\ InitConfig
    /\ InitNoExpansion
    /\ InitNoLookup
    /\ st_spec \in StepTriples
    /\ st_current = st_spec[1]
    /\ st_iterations = 0
    /\ st_len = 0
    /\ st_last = JNull
    /\ st_pc = "loop"

\* A test that raises one pass sooner.
IterationsExceededSooner(iterations) == iterations >= max_iterations

\* "if iterations > max_iterations: raise"
IterationsExceeded(iterations) == iterations > max_iterations

\* One of the break tests holds: the loop is left, for the result or for
\* the error of an empty result.
LoopBreak ==
    /\ st_pc = "loop"
    /\ BeyondStop(st_current, st_spec[2], st_spec[3])
    /\ st_pc' = IF st_len = 0 THEN "empty" ELSE "returned"
    /\ UNCHANGED << run_vars, wc_vars, ex_vars, lk_vars, st_spec, st_current,
                    st_iterations, st_len, st_last >>

\* A pass that appends and goes round again.
LoopAppend ==
    /\ st_pc = "loop"
    /\ ~BeyondStop(st_current, st_spec[2], st_spec[3])
    /\ ~IterationsExceeded(st_iterations + 1)
    /\ st_last' = coerce_numeric(st_current)
    /\ st_len' = st_len + 1
    /\ st_current' = st_current + st_spec[3]
    /\ st_iterations' = st_iterations + 1
    /\ UNCHANGED << run_vars, wc_vars, ex_vars, lk_vars, st_spec, st_pc >>

\* A pass that appends and raises: iterations went past max_iterations.
LoopOverflow ==
    /\ st_pc = "loop"
    /\ ~BeyondStop(st_current, st_spec[2], st_spec[3])
    /\ IterationsExceeded(st_iterations + 1)
    /\ st_last' = coerce_numeric(st_current)
    /\ st_len' = st_len + 1
    /\ st_current' = st_current + st_spec[3]
    /\ st_iterations' = st_iterations + 1
    /\ st_pc' = "overflow"
    /\ UNCHANGED << run_vars, wc_vars, ex_vars, lk_vars, st_spec >>

NextSteps ==
    \/ LoopBreak
    \/ LoopAppend
    \/ LoopOverflow

SpecSteps == InitSteps /\ [][NextSteps]_vars

(***************************************************************************)
(* Properties                                                              *)
(***************************************************************************)
\* The product of the axes' lengths; 1 when there are no axes.
RECURSIVE AxisProduct(_)
AxisProduct(as) ==
    IF as = <<>> THEN 1 ELSE Len(as[1].values) * AxisProduct(Tail(as))

\* min(ceiling, total), or the total when no ceiling is given
Ceiling(total) ==
    IF args.limit_given /\ args.limit < total THEN args.limit ELSE total

\* The assignments of the sweep, in the order of enumeration.
Assignments == iter_combinations(axes)

\* The per-iteration metadata and the assignment a submitted workflow carries.
IterationOf(workflow) == DictGet(workflow.adhoc, "wedge_iteration", JNull)
AssignmentOf(workflow) == DictGet(IterationOf(workflow), "combination", JNull)
IndexOf(workflow) == DictGet(IterationOf(workflow), "index", JNull).n

\* The values a workflow holds at (title, param).
InputsAt(workflow, title, param) ==
    { DictGet(workflow.nodes[i].inputs, param, JNull) :
        i \in { n \in 1..Len(workflow.nodes) :
                  workflow.nodes[n].title = title
                  /\ DictHas(workflow.nodes[n].inputs, param) } }

\* C1: a run that ends normally (no dry run, not declined, no error) has
\* submitted exactly min(ceiling, total) assignments, exactly the total when
\* no ceiling is given, and no run ever submits more than that.
C1_SubmitsClampedCount ==
    /\ Len(prompts) <= Ceiling(AxisProduct(axes))
    /\ outcome = "done" => Len(prompts) = Ceiling(AxisProduct(axes))

\* A clamped run of at least two submissions that ended normally.
C1_Witness ==
    /\ outcome = "done"
    /\ args.limit_given /\ args.limit >= 2 /\ args.limit < AxisProduct(axes)
    /\ Len(prompts) = args.limit

\* C2: at most one submission is in flight: submissions minus recorded
\* completions is 0 or 1 in every state, and a submission is made only when
\* every earlier one has been awaited and recorded.
C2_OneInFlight ==
    /\ Len(prompts) - Len(elapsed_seconds) \in {0, 1}
    /\ pc = "queue_prompt" => Len(prompts) = Len(elapsed_seconds)

\* The second submission is in flight, the first is recorded.
C2_Witness ==
    /\ pc = "stream_until_done"
    /\ Len(prompts) = 2 /\ Len(elapsed_seconds) = 1

\* The template takes (node, param, value): the location exists and the
\* value is not one it rejects.
Takes(node, param, value) ==
    /\ HasLocation(workflow_file, node, param)
    /\ <<node, param, value>> \notin workflow_file.refused

OverridesTaken ==
    \A i \in 1..Len(config.param_overrides.l) :
        \A j \in 1..Len(config.param_overrides.l[i].l[1].l) :
            LET entry == config.param_overrides.l[i].l[1].l[j]
            IN  Takes(config.param_overrides.l[i].s, entry.l[1].s, entry.l[2])

AssignmentTaken(combination) ==
    \A i \in 1..Len(combination.l) :
        \A j \in 1..Len(combination.l[i].l[1].l) :
            LET item == combination.l[i].l[1].l[j]
            IN  Takes(combination.l[i].s, item.s, item.l[1])

\* The assignments on which an override or a value is rejected.
RejectedAt ==
    LET all == Assignments
        taken == OverridesTaken
    IN  { k \in 1..Len(all) : ~(taken /\ AssignmentTaken(all[k])) }

FirstRejected ==
    LET rejected == RejectedAt
    IN  CHOOSE k \in rejected : \A o \in rejected : k <= o

\* C3: when the template rejects an override or a value on the k-th
\* assignment, the run halts there: the k-th and later assignments are never
\* submitted, and the run that reaches it ends with exactly k-1 submissions.
C3_RejectionHaltsRun ==
    LET rejected == RejectedAt
        first == FirstRejected
    IN  /\ (pc \notin {"parse_args", "load_config", "build_axes"} /\ rejected # {}) =>
              Len(prompts) < first
        /\ outcome = "ApplyError" =>
              /\ rejected # {}
              /\ idx = first
              /\ Len(prompts) = first - 1
              /\ Len(elapsed_seconds) = first - 1

\* A run halted by a rejection on its third assignment.
C3_Witness ==
    /\ outcome = "ApplyError"
    /\ RejectedAt # {} /\ FirstRejected = 3
    /\ Len(prompts) = 2

\* The answers that are "y" or "yes" as typed.
Affirmative == { <<"y">>, <<"y", "e", "s">> }

ConfirmationRequested == args.confirm /\ ~args.no_confirm

AfterConfirm ==
    pc \in {"open_workflow", "next_combination", "queue_prompt",
            "stream_until_done", "record"}

\* An answer that reads "y" or "yes" once the surrounding whitespace is
\* trimmed and the letters are lower-cased.
ReadsAffirmative(answer) == lower(strip(answer)) \in Affirmative

\* C4: with confirmation requested nothing is submitted before the operator
\* answers "y" or "yes" (letter case and surrounding blanks aside), and any
\* other answer ends the run normally (cancelled, no error) with no
\* submission.
C4_ConsentGate ==
    ConfirmationRequested =>
        /\ (AfterConfirm \/ prompts # <<>>) =>
              (Len(asked) = 1 /\ ReadsAffirmative(asked[1]))
        /\ (asked # <<>> /\ ~ReadsAffirmative(asked[Len(asked)])) =>
              (pc = "exit" /\ outcome = "cancelled" /\ prompts = <<>>)

\* A run that went on after the answer " YES", and submitted.
C4_Witness ==
    /\ ConfirmationRequested
    /\ asked = << <<" ", "Y", "E", "S">> >>
    /\ Len(prompts) >= 1

\* C5: two distinct assignments of one sweep never get the same name.
C5_NamesUnique ==
    pc = "preview" =>
        \A i, j \in 1..Len(Assignments) :
            Assignments[i] # Assignments[j] =>
                build_filename(config.filename_prefix, Assignments[i])
                    # build_filename(config.filename_prefix, Assignments[j])

\* The (node, param, value) triples of an assignment, as a set.
ContentOf(combination) ==
    UNION { { <<combination.l[i].s, combination.l[i].l[1].l[j].s,
                combination.l[i].l[1].l[j].l[1]>> :
                j \in 1..Len(combination.l[i].l[1].l) } :
            i \in 1..Len(combination.l) }

\* (node, param) pairs ordered by node, then by param.
PairBefore(a, b) ==
    \/ TextLess(Chars(a[1]), Chars(b[1]))
    \/ a[1] = b[1] /\ TextLess(Chars(a[2]), Chars(b[2]))

RECURSIVE NameFrom(_, _)
NameFrom(name, content) ==
    IF content = {} THEN name
    ELSE LET first == CHOOSE a \in content : \A b \in content \ {a} : PairBefore(a, b)
         IN  NameFrom(name \o <<"_", "_">> \o Chars(first[1]) \o <<"-">>
                           \o Chars(first[2]) \o <<"-">> \o sanitize_value(first[3]),
                      content \ {first})

\* The orders in which the axes may be declared.
Orders(n) == { f \in [1..n -> 1..n] : \A a, b \in 1..n : f[a] = f[b] => a = b }
Reordered(f) == [k \in 1..Len(axes) |-> axes[f[k]]]

\* C6: the name depends on the content of the assignment only: under every
\* order of declaration of the axes, assignments of the same content get the
\* same name, which lists the tokens by node, then by param.
C6_NameIgnoresDeclarationOrder ==
    pc = "preview" =>
        \A f \in Orders(Len(axes)) :
            \A j \in 1..Len(iter_combinations(Reordered(f))) :
                LET other == iter_combinations(Reordered(f))[j]
                    name == build_filename(config.filename_prefix, other)
                IN  /\ name = NameFrom(CharsOf(config.filename_prefix), ContentOf(other))
                    /\ \A i \in 1..Len(Assignments) :
                          ContentOf(Assignments[i]) = ContentOf(other) =>
                              build_filename(config.filename_prefix, Assignments[i]) = name

\* Two axes declared against the sorted order: node B before node A.
C6_Witness ==
    /\ pc = "preview"
    /\ Len(axes) = 2
    /\ axes[1].node = "B" /\ axes[2].node = "A"
    /\ Len(Assignments) = 6

\* The (node, param) keys in declaration order: param_wedges in mapping
\* order, each node's wedges in their order.
DeclaredKeys ==
    Concat([i \in 1..Len(config.param_wedges.l) |->
        [j \in 1..Len(config.param_wedges.l[i].l[1].l) |->
            << config.param_wedges.l[i].s, config.param_wedges.l[i].l[1].l[j].l[1].s >>]])

\* The product of the lengths of the axes after the k-th.
RECURSIVE Weight(_)
Weight(k) == IF k >= Len(axes) THEN 1 ELSE Len(axes[k + 1].values) * Weight(k + 1)

\* The position on axis k of the i-th assignment of the odometer.
Position(i, k) == (((i - 1) \div Weight(k)) % Len(axes[k].values)) + 1

\* The last axis declared for the key of axis k.
LastFor(k) ==
    CHOOSE m \in k..Len(axes) :
        /\ axes[m].node = axes[k].node /\ axes[m].param = axes[k].param
        /\ \A o \in (m + 1)..Len(axes) :
              ~(axes[o].node = axes[k].node /\ axes[o].param = axes[k].param)

\* C7: the axes are in declaration order, the enumeration has
\* product(len(axis)) assignments in odometer order with the last axis varying
\* fastest, and the i-th submission carries the i-th assignment.
C7_OdometerOrder ==
    pc \notin {"parse_args", "load_config", "build_axes", "exit"} =>
        LET all == Assignments IN
        /\ [k \in 1..Len(axes) |-> <<axes[k].node, axes[k].param>>] = DeclaredKeys
        /\ Len(all) = AxisProduct(axes)
        /\ \A i \in 1..Len(all) :
              /\ \A k \in 1..Len(axes) :
                    DictGet(DictGet(all[i], axes[k].node, JDict(<<>>)),
                            axes[k].param, JNull)
                        = axes[LastFor(k)].values[Position(i, LastFor(k))]
              /\ ContentOf(all[i]) \subseteq
                    { <<axes[k].node, axes[k].param,
                        axes[LastFor(k)].values[Position(i, LastFor(k))]>> :
                        k \in 1..Len(axes) }
        /\ \A n \in 1..Len(prompts) :
              /\ IndexOf(prompts[n]) = n
              /\ AssignmentOf(prompts[n]) = all[n]
              /\ \A tr \in ContentOf(all[n]) :
                    InputsAt(prompts[n], tr[1], tr[2]) = {tr[3]}

\* A sweep of two axes (2 x 3) whose sixth assignment has been submitted.
C7_Witness ==
    /\ pc = "stream_until_done"
    /\ Len(axes) = 2 /\ Len(axes[1].values) = 2 /\ Len(axes[2].values) = 3
    /\ Len(prompts) = 6

\* The names the SaveImage nodes of a workflow were given.
OutputNames(workflow) ==
    { DictGet(workflow.nodes[i].inputs, "filename_prefix", JNull) :
        i \in { n \in 1..Len(workflow.nodes) :
                  workflow.nodes[n].class_type = "SaveImage" } } \ {JNull}

NoWedges == config # NoConfig /\ config.param_wedges.l = <<>>

\* C8: with no axes the enumeration is the one empty assignment, and a sweep
\* without wedges that ends normally has submitted exactly one job, named by
\* the bare prefix.
C8_NoAxesRunsOnce ==
    (NoWedges /\ pc \notin {"parse_args", "load_config", "build_axes"}) =>
        /\ axes = <<>>
        /\ Assignments = << JDict(<<>>) >>
        /\ total_runs = 1
        /\ outcome = "done" =>
              /\ Len(prompts) = 1
              /\ AssignmentOf(prompts[1]) = JDict(<<>>)
              /\ OutputNames(prompts[1]) =
                    { JText(CharsOf(config.output_folder) \o <<"/">> \o Chars("images")
                            \o <<"/">> \o CharsOf(config.filename_prefix)) }

\* A sweep without wedges that ran its one job.
C8_Witness ==
    /\ outcome = "done"
    /\ NoWedges
    /\ Len(prompts) = 1 /\ Len(elapsed_seconds) = 1

Held == wc_state \in {"loaded", "reloaded"}

RawOverrides == DictGet(wc_data, "param_overrides", JDict(<<>>))
RawWedges == DictGet(wc_data, "param_wedges", JDict(<<>>))

\* A flat list of [node, param, value] triples.
LegacyOverrides ==
    /\ IsList(RawOverrides)
    /\ \A i \in 1..Len(RawOverrides.l) :
          IsEntryOfLen(RawOverrides.l[i], 3) /\ IsStr(RawOverrides.l[i].l[1])

\* A mapping param -> [node, values_spec, kind], every entry of that shape.
LegacyWedges ==
    /\ IsDict(RawWedges) /\ RawWedges.l # <<>>
    /\ \A i \in 1..Len(RawWedges.l) :
          /\ IsEntryOfLen(RawWedges.l[i].l[1], 3)
          /\ IsStr(RawWedges.l[i].l[1].l[1])

\* The [param, value] pairs declared for a node, in the order of the list.
DeclaredOverrides(node) ==
    LET mine == SelectSeq(RawOverrides.l, LAMBDA entry : entry.l[1] = JStr(node))
    IN  JList([i \in 1..Len(mine) |-> JList(<<mine[i].l[2], mine[i].l[3]>>)])

\* The [param, values_spec, kind] wedges declared for a node, in the order of
\* the mapping.
DeclaredWedges(node) ==
    LET mine == SelectSeq(RawWedges.l, LAMBDA item : item.l[1].l[1] = JStr(node))
    IN  JList([i \in 1..Len(mine) |->
            JList(<<JStr(mine[i].s), mine[i].l[1].l[2], mine[i].l[1].l[3]>>)])

KeysOf(d) == { d.l[i].s : i \in 1..Len(d.l) }

\* The node-keyed shape: node -> list of entries of k elements.
NodeKeyed(d, k) ==
    /\ IsDict(d)
    /\ \A i \in 1..Len(d.l) :
          /\ IsList(d.l[i].l[1])
          /\ \A j \in 1..Len(d.l[i].l[1].l) : IsEntryOfLen(d.l[i].l[1].l[j], k)

\* C10: a legacy override list and a legacy wedge mapping normalise to the
\* node-keyed mapping that holds exactly the declared entries, each node's in
\* their order, and to_dict of a loaded configuration is node-keyed.
C10_LegacyLossless ==
    /\ (wc_state # "none" /\ LegacyOverrides) =>
          LET got == normalize_overrides(RawOverrides) IN
          /\ got.ok
          /\ KeysOf(got.val) = { RawOverrides.l[i].l[1].s : i \in 1..Len(RawOverrides.l) }
          /\ \A node \in KeysOf(got.val) :
                DictGet(got.val, node, JNull) = DeclaredOverrides(node)
          /\ (wc_state = "loaded" /\ wc_calls = 0) => wc.param_overrides = got.val
    /\ (wc_state # "none" /\ LegacyWedges) =>
          LET got == normalize_wedges(RawWedges) IN
          /\ got.ok
          /\ KeysOf(got.val) = { RawWedges.l[i].l[1].l[1].s : i \in 1..Len(RawWedges.l) }
          /\ \A node \in KeysOf(got.val) :
                DictGet(got.val, node, JNull) = DeclaredWedges(node)
          /\ (wc_state = "loaded" /\ wc_calls = 0) => wc.param_wedges = got.val
    /\ Held =>
          /\ NodeKeyed(DictGet(to_dict(wc), "param_overrides", JNull), 2)
          /\ NodeKeyed(DictGet(to_dict(wc), "param_wedges", JNull), 3)

\* A document in both legacy shapes, loaded: node A has two overrides and
\* node B two wedges, declared apart.
C10_Witness ==
    /\ wc_state = "loaded" /\ wc_calls = 0
    /\ LegacyOverrides /\ LegacyWedges
    /\ Len(RawOverrides.l) = 3 /\ Len(RawWedges.l) = 3
    /\ Len(DictGet(wc.param_overrides, "A", JList(<<>>)).l) = 2
    /\ Len(DictGet(wc.param_wedges, "B", JList(<<>>)).l) = 2

\* Every node's sequence names a param at most once.
ParamsOnce(d) ==
    \A i \in 1..Len(d.l) :
        LET entries == d.l[i].l[1].l
        IN  \A j, k \in 1..Len(entries) : j # k => ~PyEq(entries[j].l[1], entries[k].l[1])

\* C11: in every configuration reached by loading a document and calling the
\* mutators, each node's sequence of overrides and of wedges names a param at
\* most once.
C11_ParamOncePerNode ==
    Held => ParamsOnce(wc.param_overrides) /\ ParamsOnce(wc.param_wedges)

\* No node key holds an empty sequence.
NoEmptyNode(d) == \A i \in 1..Len(d.l) : d.l[i].l[1].l # <<>>

\* C12: in every configuration reached by loading a document and calling the
\* mutators, no node key of the overrides or of the wedges holds an empty
\* sequence.
C12_NoEmptySequence ==
    Held => NoEmptyNode(wc.param_overrides) /\ NoEmptyNode(wc.param_wedges)

\* The values and wedges the mutators are tried with on a held configuration.
TriedValues == { JInt(1), JInt(9), JStr("x y") }
TriedWedges == MutatorWedges \cup { [values |-> <<JInt(3), JInt(2)>>, kind |-> "explicit"] }

\* A call of set_param_wedge: an unsupported wedge_type raises and changes
\* nothing.
SetWedgeCall(c, node, param, w) ==
    IF IsWedgeType(JStr(w.kind)) THEN set_param_wedge(c, node, param, w.values, w.kind)
    ELSE c

\* The entries a node's sequence holds for a param.
EntriesFor(d, node, param) ==
    SelectSeq(DictGet(d, node, JList(<<>>)).l, LAMBDA entry : PyEq(entry.l[1], JStr(param)))

\* C13: on every configuration, a set called twice with the same arguments
\* leaves what one call leaves, after a set the node holds one entry for the
\* param, carrying the value set, and a remove called twice leaves what one
\* call leaves, with no entry for the param.
C13_MutatorsIdempotent ==
    Held =>
        \A node \in MutatorNodes, param \in MutatorParams :
            /\ \A value \in TriedValues :
                  LET once == set_param_override(wc, node, param, value) IN
                  /\ set_param_override(once, node, param, value) = once
                  /\ EntriesFor(once.param_overrides, node, param)
                        = << JList(<<JStr(param), value>>) >>
            /\ \A w \in TriedWedges :
                  LET once == SetWedgeCall(wc, node, param, w) IN
                  /\ SetWedgeCall(once, node, param, w) = once
                  /\ IsWedgeType(JStr(w.kind)) =>
                        EntriesFor(once.param_wedges, node, param)
                            = << JList(<<JStr(param), JList(w.values), JStr(w.kind)>>) >>
                  /\ ~IsWedgeType(JStr(w.kind)) => once = wc
            /\ LET once == remove_param_override(wc, node, param) IN
                  /\ remove_param_override(once, node, param) = once
                  /\ EntriesFor(once.param_overrides, node, param) = <<>>
            /\ LET once == remove_param_wedge(wc, node, param) IN
                  /\ remove_param_wedge(once, node, param) = once
                  /\ EntriesFor(once.param_wedges, node, param) = <<>>

\* The document gave A.p the value 9 beside A.q; a set of A.p to 1 has
\* replaced it, and A still holds two entries.
C13_Witness ==
    /\ wc_state = "loaded" /\ wc_calls = 1
    /\ EntriesFor(RawOverrides, "A", "p") = << JList(<<JStr("p"), JInt(9)>>) >>
    /\ DictGet(wc.param_overrides, "A", JNull)
          = JList(<< JList(<<JStr("q"), JStr("x y")>>), JList(<<JStr("p"), JInt(1)>>) >>)

\* A value that is a non-empty string.
NonEmptyStr(v) == v.t = "str" /\ (v.s # "" \/ v.l # <<>>)

Kinds == { JStr("minmax"), JStr("explicit") }

\* What a loaded configuration must satisfy.
WellFormed(c) ==
    /\ NonEmptyStr(c.output_folder) /\ NonEmptyStr(c.filename_prefix) /\ NonEmptyStr(c.url)
    /\ NodeKeyed(c.param_overrides, 2)
    /\ NodeKeyed(c.param_wedges, 3)
    /\ \A i \in 1..Len(c.param_wedges.l) :
          \A j \in 1..Len(c.param_wedges.l[i].l[1].l) :
              c.param_wedges.l[i].l[1].l[j].l[3] \in Kinds

\* The output folder a document gives: output_folder, or project_name when
\* output_folder is missing or empty.
FolderGiven(d) ==
    IF Truthy(DictGet(d, "output_folder", JNull)) THEN DictGet(d, "output_folder", JNull)
    ELSE DictGet(d, "project_name", JNull)

\* A document that breaks one of the requirements: a required field missing,
\* empty or not a string, an override entry of the wrong length, a wedge
\* entry of the wrong length, a wedge kind that is not one of the two.
BreaksARequirement(d) ==
    LET overrides == DictGet(d, "param_overrides", JDict(<<>>))
        wedges == DictGet(d, "param_wedges", JDict(<<>>))
    IN  \/ ~NonEmptyStr(FolderGiven(d))
        \/ ~NonEmptyStr(DictGet(d, "filename_prefix", JNull))
        \/ ~NonEmptyStr(DictGet(d, "url", JNull))
        \/ /\ IsDict(overrides)
           /\ \E i \in 1..Len(overrides.l) :
                 \E j \in 1..Len(overrides.l[i].l[1].l) :
                     ~IsEntryOfLen(overrides.l[i].l[1].l[j], 2)
        \/ /\ IsList(overrides)
           /\ \E i \in 1..Len(overrides.l) : ~IsEntryOfLen(overrides.l[i], 3)
        \/ /\ IsDict(wedges)
           /\ \E i \in 1..Len(wedges.l) :
                 LET value == wedges.l[i].l[1] IN
                 IF IsList(value) /\ value.l # <<>> /\ IsList(value.l[1])
                 THEN \E j \in 1..Len(value.l) :
                         \/ ~IsEntryOfLen(value.l[j], 3)
                         \/ value.l[j].l[3] \notin Kinds
                 ELSE \/ ~IsEntryOfLen(value, 3)
                      \/ value.l[3] \notin Kinds

\* C14: a load gives a configuration only if the three required fields are
\* non-empty strings, every override entry has 2 elements, every wedge entry
\* has 3 and every wedge kind is "minmax" or "explicit"; a document that
\* breaks one of these fails to load and gives no configuration.
C14_LoadValidates ==
    /\ (wc_state = "loaded" /\ wc_calls = 0) => WellFormed(wc)
    /\ (wc_state # "none" /\ BreaksARequirement(wc_data)) =>
          (wc_state = "failed" /\ wc = NoConfig)

\* A document whose only fault is a wedge of kind "linear" has failed to load.
C14_Witness ==
    /\ wc_state = "failed" /\ wc = NoConfig
    /\ NonEmptyStr(FolderGiven(wc_data))
    /\ NonEmptyStr(DictGet(wc_data, "filename_prefix", JNull))
    /\ NonEmptyStr(DictGet(wc_data, "url", JNull))
    /\ IsDict(RawOverrides) /\ NodeKeyed(RawOverrides, 2)
    /\ RawWedges = JDict(<< JItem("A", JList(<<Wedge("p", <<JInt(1)>>, "linear")>>)) >>)

\* The call under SpecExpand: a minmax wedge of non-zero step, returned from.
MinmaxDone ==
    /\ ex_pc = "done" /\ ex_kind = JStr("minmax")
    /\ NumQuarters(ex_spec.l[3]) # 0

ExStart == NumQuarters(ex_spec.l[1])
ExStop == NumQuarters(ex_spec.l[2])
ExStep == NumQuarters(ex_spec.l[3])
ExSign == IF ExStep > 0 THEN 1 ELSE 0 - 1

\* The whole quarters within the tolerance abs(step) * 1e-9: a whole number
\* of quarters d has d <= abs(step) * 1e-9 exactly when d <= ExTolerance.
ExTolerance == Abs(ExStep) \div ToleranceInverse
WithinTolerance(d) == Abs(d) <= ExTolerance

\* A number of quarters as the value expansion gives it: an int when whole.
Coerced(q) == IF q % FloatScale = 0 THEN JInt(q \div FloatScale) ELSE JFloat(q)

StrictlyMonotonic(values) ==
    \A i \in 1..(Len(values) - 1) :
        (NumQuarters(values[i + 1]) - NumQuarters(values[i])) * ExSign > 0

Clamped == args.limit_given /\ args.limit < total_runs

\* The lines of one kind in the log, in order.
Lines(kind) == SelectSeq(log, LAMBDA line : line.kind = kind)

\* The k-th line is numbered k, against n.
NumberedAgainst(lines, n) ==
    \A k \in 1..Len(lines) : lines[k].idx = k /\ lines[k].of = n

\* C16 as stated: under a ceiling smaller than the total, the k-th submission
\* is reported as k against the total.
C16_AsStated ==
    Clamped => NumberedAgainst(Lines("submitting"), total_runs)

\* C16, amended: under a ceiling smaller than the total, the k-th submission
\* and its completion are reported as k against the clamped count, and the
\* per-iteration metadata says the same; only the preview listing numbers its
\* lines against the total.
C16_ProgressAgainstClamped ==
    Clamped =>
        /\ NumberedAgainst(Lines("submitting"), args.limit)
        /\ NumberedAgainst(Lines("completed"), args.limit)
        /\ NumberedAgainst(Lines("listing"), total_runs)
        /\ Len(Lines("submitting")) - Len(prompts) \in {0, 1}
        /\ Len(Lines("completed")) = Len(elapsed_seconds)
        /\ \A n \in 1..Len(prompts) :
              DictGet(IterationOf(prompts[n]), "of", JNull) = JInt(args.limit)

\* A run of 3 out of 6 combinations, listed and submitted, that ended normally.
C16_Witness ==
    /\ outcome = "done"
    /\ Clamped /\ args.limit = 3 /\ total_runs = 6
    /\ Len(Lines("listing")) = 3
    /\ Len(Lines("submitting")) = 3 /\ Len(Lines("completed")) = 3

\* A ceiling of zero on a command line that is otherwise accepted.
CeilingZero ==
    /\ args.limit_given /\ args.limit = 0
    /\ ~(args.confirm /\ args.no_confirm)

\* C17 as stated: a run given a ceiling of zero ends without reporting an
\* error, and with no submissions.
C17_AsStated ==
    (CeilingZero /\ pc = "exit") => (outcome # "usage_error" /\ prompts = <<>>)

\* C17, amended: a ceiling of zero is refused when the command line is
\* parsed: the run ends with a usage error before anything is loaded, with no
\* submissions; and no run gets past the counting with a clamped count of
\* zero, the total and the ceiling being at least 1.
C17_CeilingZeroRefused ==
    /\ (CeilingZero /\ pc # "parse_args") =>
          /\ pc = "exit" /\ outcome = "usage_error"
          /\ config = NoConfig /\ log = <<>> /\ prompts = <<>>
    /\ outcome # "no_combinations"
    /\ (pc \notin {"parse_args", "load_config", "build_axes"}
          /\ outcome \notin {"usage_error", "FileNotFoundError", "ValueError", "AxisError"}) =>
          (total_runs >= 1 /\ max_runs >= 1)

\* A run given a ceiling of zero, ended by the parser.
C17_Witness ==
    /\ CeilingZero
    /\ pc = "exit" /\ outcome = "usage_error"
    /\ files.workflow /\ files.config

\* The wedges of the loaded configuration that expand_wedge_values refuses,
\* as (position of the node, position of the wedge in the node).
FailingWedges ==
    IF config = NoConfig THEN {}
    ELSE LET items == config.param_wedges.l IN
         { w \in UNION { { <<i, j>> : j \in 1..Len(items[i].l[1].l) } : i \in 1..Len(items) } :
             LET wedge == items[w[1]].l[1].l[w[2]]
             IN  ~expand_wedge_values(wedge.l[2], wedge.l[3]).ok }

\* C18: a run whose configuration holds a wedge that cannot be expanded, in
\* whatever node and place it is declared, ends on the error when the axes
\* are built: nothing is previewed, no confirmation is asked and nothing is
\* submitted.
C18_ExpansionFailsEarly ==
    FailingWedges # {} =>
        /\ pc \in {"build_axes", "exit"}
        /\ pc = "exit" => outcome = "AxisError"
        /\ axes = <<>> /\ log = <<>> /\ asked = <<>> /\ prompts = <<>>

\* A run that asked for the preview and the confirmation, ended by a wedge
\* of the node declared second, the first node's wedge being sound.
C18_Witness ==
    /\ pc = "exit" /\ outcome = "AxisError"
    /\ args.print_combinations /\ args.confirm /\ ~args.no_confirm
    /\ \E w \in FailingWedges : w[1] = 2
    /\ \A w \in FailingWedges : w[1] # 1

\* The node named by --output-node, and the SaveImage nodes of the template.
PreferredExists == HasLocation(workflow_file, args.output_node, "filename_prefix")

SaveImageNodes ==
    { n \in 1..Len(workflow_file.nodes) : workflow_file.nodes[n].class_type = "SaveImage" }

SoleSaveImage == Cardinality(SaveImageNodes) = 1

SoleTitled == SoleSaveImage /\ \A n \in SaveImageNodes : workflow_file.nodes[n].title # ""

\* The title the output name goes to.
OutputNode ==
    IF PreferredExists THEN args.output_node
    ELSE workflow_file.nodes[CHOOSE n \in SaveImageNodes : TRUE].title

\* The name main computes for a submitted workflow.
NameComputed(workflow) ==
    OutputPrefix(config.output_folder,
                 build_filename(config.filename_prefix, AssignmentOf(workflow)))

ExecutorFailed == outcome \in {"NoPromptId", "ExecutorError"}

IsPrefix(a, b) == Len(a) <= Len(b) /\ SubSeq(b, 1, Len(a)) = a

\* C20: no retry and no rollback: the k-th submission of a run is its k-th
\* assignment, so none is submitted twice; a run on which the executor fails
\* at the k-th assignment, on submit (no job id included) or on await, has
\* ended with k submissions and k-1 recorded completions; and in every step
\* the submissions and the recorded completions only grow, and not at all
\* once the executor has failed.
C20_NoRetryNoRollback ==
    /\ [](LET all == Assignments IN
          \A k \in 1..Len(prompts) :
              IndexOf(prompts[k]) = k /\ AssignmentOf(prompts[k]) = all[k])
    /\ [](ExecutorFailed =>
              /\ pc = "exit"
              /\ Len(prompts) = idx /\ Len(elapsed_seconds) = idx - 1)
    /\ [][/\ IsPrefix(prompts, prompts')
          /\ IsPrefix(elapsed_seconds, elapsed_seconds')
          /\ ExecutorFailed => UNCHANGED << prompts, elapsed_seconds >>]_vars

\* The executor failed on the second of more than two assignments, the first
\* being recorded.
C20_Witness ==
    /\ ExecutorFailed
    /\ Len(prompts) = 2 /\ Len(elapsed_seconds) = 1
    /\ max_runs > 2

\* C21: viewer and submitter agree on every wedge the submitter sweeps: the
\* same values in the same order, and for every selection the viewer builds
\* the base name the submitter gave that assignment.
C21_ViewerAgrees ==
    (lk_pc = "viewed" /\ lk_sub.ok) =>
        /\ lk_view.values = lk_sub.values
        /\ lk_view.names = lk_sub.names


\* C22: the expansion of a minmax triple is bounded at max_iterations passes:
\* the loop never runs past max_iterations + 1 of them, a triple that needs
\* more than max_iterations values ends with the overflow error and never
\* with a list, and a triple that needs at most max_iterations values ends
\* with all of them, the last being start + (needed - 1) * step.
C22_BoundedExpansion ==
    LET needed == ValuesNeeded(st_spec[1], st_spec[2], st_spec[3]) IN
    st_pc # "idle" =>
        /\ st_iterations <= max_iterations + 1
        /\ st_pc = "loop" => st_iterations <= max_iterations
        /\ needed > max_iterations => st_pc \in {"loop", "overflow"}
        /\ st_pc = "overflow" => needed > max_iterations
        /\ st_pc = "returned" =>
               /\ st_len = needed
               /\ st_last = coerce_numeric(st_spec[1] + (needed - 1) * st_spec[3])
        /\ st_pc = "empty" => needed = 0

\* A triple of exactly max_iterations values returned them all.
C22_Witness ==
    /\ st_pc = "returned"
    /\ st_len = max_iterations

\* The base template as main opens it: the workflow of the file with the
\* sweep metadata attached.
Opened == update_adhoc_metadata(workflow_file, "wedge_config", to_dict(config))

\* The inputs of the nodes of a template prepared for an assignment when
\* nothing of another iteration shows in it: the assignment's value where
\* it names (title, param), else what the opened template with the static
\* overrides holds there.  The output name is left out.
OwnInputs(workflow, assignment) ==
    LET overridden == apply_param_overrides(Opened, config).workflow
        triples == CombinationTriples(assignment)
    IN  \A n \in 1..Len(workflow.nodes) :
            \A k \in 1..Len(workflow.nodes[n].inputs.l) :
                LET param == workflow.nodes[n].inputs.l[k].s
                    value == workflow.nodes[n].inputs.l[k].l[1]
                    named == { i \in 1..Len(triples) :
                                 /\ triples[i].node = workflow.nodes[n].title
                                 /\ triples[i].param = param }
                IN  param # "filename_prefix" =>
                        IF named = {}
                        THEN value = DictGet(overridden.nodes[n].inputs, param, JNull)
                        ELSE \A i \in named : value = triples[i].value

\* C23: the per-assignment cycle never changes the base template: once the
\* loop runs, and after any number of iterations, the base template is the
\* workflow of the file with the sweep metadata and nothing else (its
\* parameter values and its output name are the file's), and the template
\* last submitted holds, outside its own assignment, only what the file and
\* the static overrides give: nothing of another iteration.
C23_BaseTemplateKept ==
    (pc \in {"next_combination", "queue_prompt", "stream_until_done", "record"}
        \/ idx >= 1) =>
        /\ base_workflow = Opened
        /\ base_workflow.nodes = workflow_file.nodes
        /\ prompts # <<>> =>
               LET last == prompts[Len(prompts)]
               IN  /\ Len(last.nodes) = Len(workflow_file.nodes)
                   /\ OwnInputs(last, Assignments[Len(prompts)])

\* A second assignment was submitted, with a value other than the first's,
\* and the base template is still as opened.
C23_Witness ==
    /\ Len(prompts) >= 2
    /\ AssignmentOf(prompts[1]) # AssignmentOf(prompts[2])
    /\ base_workflow = Opened

\* The lines of a kind in a log.
LinesOf(lines, kind) == SelectSeq(lines, LAMBDA line : line.kind = kind)

\* C24: elapsed_seconds is appended to once per completed assignment and
\* never changed otherwise: every step leaves it alone or appends one entry,
\* the k-th entry comes with the report of the k-th completion, so that it
\* holds as many entries as completions were reported; the ETA reported with
\* the k-th completion is the mean of the k entries times (max_runs - k); and
\* no ETA is reported with the last completion, when no runs remain.
C24_ElapsedAndEta ==
    [][ LET k == Len(elapsed_seconds')
            new == SubSeq(log', Len(log) + 1, Len(log'))
        IN  /\ IsPrefix(elapsed_seconds, elapsed_seconds')
            /\ k <= Len(elapsed_seconds) + 1
            /\ IsPrefix(log, log')
            /\ k = Len(LinesOf(log', "completed"))
            /\ k = Len(elapsed_seconds) =>
                   LinesOf(new, "completed") = <<>> /\ LinesOf(new, "eta") = <<>>
            /\ k = Len(elapsed_seconds) + 1 =>
                   /\ idx = k
                   /\ k <= max_runs
                   /\ Len(new) \in {1, 2}
                   /\ new[1] = LogLine("completed", k, max_runs, JNull)
                   /\ Len(new) = 2 =>
                          /\ new[2].kind = "eta"
                          /\ k < max_runs
                          /\ new[2].num * k
                                = Sum(elapsed_seconds') * (max_runs - k) * new[2].den
                   /\ (k < max_runs /\ Sum(elapsed_seconds') > 0) => Len(new) = 2
      ]_vars

\* Two completions are recorded, the second took longer than the first, and
\* an ETA was reported with the second.
C24_Witness ==
    /\ Len(elapsed_seconds) = 2
    /\ elapsed_seconds[1] < elapsed_seconds[2]
    /\ \E i \in 1..Len(log) : log[i].kind = "eta" /\ log[i].idx = 2

\* main is past the listing of the combinations.
PastPreview ==
    \/ pc = "confirm"
    \/ AfterConfirm
    \/ outcome \in {"dry_run", "cancelled", "EOFError", "done", "ExecutorError",
                    "NoPromptId", "ApplyError", "AmbiguousOutputError"}

Previewed == args.print_combinations \/ args.dry_run

\* C25: the preview (--print-combinations or --dry-run) lists exactly the
\* first min(ceiling, total) assignments of the enumeration, in order, each
\* under its 1-based index and the true total, and nothing is listed without
\* it; a dry run ends after the preview with no submission and without the
\* confirmation prompt, even when confirmation is requested.
C25_PreviewListing ==
    LET listing == LinesOf(log, "listing")
        total == AxisProduct(axes)
        shown == IF args.limit_given /\ args.limit < total THEN args.limit ELSE total
    IN  /\ ~(PastPreview /\ Previewed) => listing = <<>>
        /\ (PastPreview /\ Previewed) =>
               /\ Len(listing) = shown
               /\ \A i \in 1..shown :
                      listing[i] = LogLine("listing", i, total, Assignments[i])
        /\ (PastPreview /\ args.dry_run) =>
               /\ pc = "exit"
               /\ outcome = "dry_run"
               /\ prompts = <<>>
               /\ asked = <<>>
        /\ outcome = "dry_run" => args.dry_run

\* A dry run with confirmation requested and a ceiling below the total ended
\* after a listing of two or more assignments.
C25_Witness ==
    /\ outcome = "dry_run"
    /\ ConfirmationRequested
    /\ args.limit_given
    /\ args.limit >= 2
    /\ args.limit < AxisProduct(axes)
    /\ Len(LinesOf(log, "listing")) = args.limit

\* C26: the preview does not consume the enumeration: the loop starts on an
\* iterator that has yielded nothing, and in every run, with the preview or
\* without it, the k-th template submitted is the one prepared for the k-th
\* assignment of the enumeration, counted from the first, and a run that
\* ends normally has submitted min(ceiling, total) of them; so a run with
\* the preview submits what the run without it submits, in the same order.
C26_PreviewKeepsEnumeration ==
    LET k == Len(prompts)
        total == AxisProduct(axes)
        clamped == IF args.limit_given /\ args.limit < total THEN args.limit ELSE total
    IN  /\ (pc = "next_combination" /\ idx = 0) => combinations_iter = 0
        /\ AfterConfirm => combinations_iter \in {idx, idx + 1}
        /\ k >= 1 =>
               /\ k <= clamped
               /\ AssignmentOf(prompts[k]) = Assignments[k]
               /\ prompts[k] = Prepared(k, Assignments[k]).workflow
        /\ outcome = "done" => k = clamped

\* A run that listed its combinations and went on to submit the second
\* assignment of a sweep cut by the ceiling.
C26_Witness ==
    /\ args.print_combinations
    /\ Len(LinesOf(log, "listing")) >= 2
    /\ Len(prompts) = 2
    /\ Len(prompts) < AxisProduct(axes)
    /\ AssignmentOf(prompts[2]) = Assignments[2]
    /\ Assignments[1] # Assignments[2]

\* The phases of main in the order of its text; the per-assignment cycle
\* is one phase.
PhaseRank(phase) ==
    CASE phase = "parse_args" -> 1
      [] phase = "load_config" -> 2
      [] phase = "build_axes" -> 3
      [] phase = "preview" -> 4
      [] phase = "confirm" -> 5
      [] phase = "open_workflow" -> 6
      [] phase \in {"next_combination", "queue_prompt", "stream_until_done",
                    "record"} -> 7
      [] phase = "exit" -> 8
      [] OTHER -> 0

\* C27: every run terminates: with an operator who answers the prompt and
\* an executor that answers every submission and reports the end of every
\* job, main reaches its end (done, or stopped by an error, a refusal or a
\* dry run) and stays there; no step takes it back to an earlier phase, the
\* phases before the loop are each left for a later one, the loop's index
\* never goes down, and at no time are there more submissions than
\* min(ceiling, total).
C27_Terminates ==
    /\ <>[](pc = "exit" /\ outcome # "")
    /\ [][ /\ PhaseRank(pc') >= PhaseRank(pc)
           /\ PhaseRank(pc) < 7 => PhaseRank(pc') > PhaseRank(pc)
           /\ idx' >= idx
           /\ Len(prompts') >= Len(prompts) ]_vars
    /\ [](LET total == AxisProduct(axes)
          IN  /\ Len(prompts) <= total
              /\ args.limit_given => Len(prompts) <= args.limit)

\* A run with confirmation requested came to its normal end after three
\* submissions.
C27_Witness ==
    /\ pc = "exit"
    /\ outcome = "done"
    /\ ConfirmationRequested
    /\ asked # <<>>
    /\ Len(prompts) = 3

\* The (node, param) places a static override and a wedge of the
\* configuration both name.
DeclaredTwice ==
    { << t.node, t.param >> : t \in
        { OverrideTriples(config.param_overrides)[i] :
            i \in 1..Len(OverrideTriples(config.param_overrides)) } }
    \cap { << axes[i].node, axes[i].param >> : i \in 1..Len(axes) }

\* C28: the static overrides are applied to the clone before the values of
\* the assignment: in every template submitted, a place named both by a
\* static override and by a wedge holds the wedge value of that template's
\* assignment, and never the override's when the two differ.
C28_WedgeOverOverride ==
    \A k \in 1..Len(prompts) :
        LET triples == CombinationTriples(Assignments[k])
        IN  \A i \in 1..Len(triples) :
                << triples[i].node, triples[i].param >> \in DeclaredTwice =>
                    InputsAt(prompts[k], triples[i].node, triples[i].param)
                        = { triples[i].value }

\* Two templates were submitted; a place of theirs is named by an override
\* and by a wedge, neither wedge value is the override's, and the two
\* templates hold different values there.
C28_Witness ==
    /\ Len(prompts) >= 2
    /\ \E place \in DeclaredTwice :
          /\ InputsAt(prompts[1], place[1], place[2])
                # InputsAt(prompts[2], place[1], place[2])
          /\ \A i \in 1..Len(OverrideTriples(config.param_overrides)) :
                LET o == OverrideTriples(config.param_overrides)[i]
                IN  (o.node = place[1] /\ o.param = place[2]) =>
                        /\ o.value \notin InputsAt(prompts[1], place[1], place[2])
                        /\ o.value \notin InputsAt(prompts[2], place[1], place[2])

\* The wedges a param_wedges document declares, each as << node, [param,
\* values_spec, kind] >>, in the order of the document: the triples of a
\* current-shape key, the one wedge of a legacy-shape key.
DeclaredIn(raw) ==
    Concat([i \in 1..Len(raw.l) |->
        LET key == raw.l[i].s
            value == raw.l[i].l[1]
        IN  IF IsModernWedgeValue(value)
            THEN [j \in 1..Len(value.l) |-> << key, value.l[j] >>]
            ELSE IF IsLegacyWedgeValue(value) /\ IsStr(value.l[1])
            THEN << << value.l[1].s, JList(<<JStr(key), value.l[2], value.l[3]>>) >> >>
            ELSE <<>>])

\* The wedges of a node-keyed mapping, each as << node, triple >>.
HeldIn(mapping) ==
    Concat([i \in 1..Len(mapping.l) |->
        [j \in 1..Len(mapping.l[i].l[1].l) |->
            << mapping.l[i].s, mapping.l[i].l[1].l[j] >>]])

Count(seq, x) == Cardinality({ i \in 1..Len(seq) : seq[i] = x })

\* C29: normalize_wedges loses no declaration: whenever it accepts a
\* param_wedges document, of current-shape keys, legacy-shape keys or both,
\* in whatever order, every wedge the document declares is under its node in
\* the normalized mapping as often as it is declared (once, when declared
\* once), and the mapping holds nothing else.
C29_NoDeclarationLost ==
    (wc_state # "none" /\ IsDict(RawWedges) /\ normalize_wedges(RawWedges).ok) =>
        LET declared == DeclaredIn(RawWedges)
            held == HeldIn(normalize_wedges(RawWedges).val)
        IN  /\ Len(held) = Len(declared)
            /\ \A i \in 1..Len(declared) :
                   Count(held, declared[i]) = Count(declared, declared[i])

\* What a wedge row of the submitter UI gives: an explicit list, or a minmax
\* triple of three floats with a step other than 0.
UiAccepts ==
    \/ ex_kind = JStr("explicit")
    \/ /\ ex_kind = JStr("minmax")
       /\ \A i \in 1..3 : ex_spec.l[i].t = "float"
       /\ ex_spec.l[3].n # 0

\* C30: for a configuration of one wedge the UI accepts, the run count the
\* UI shows in its confirmation dialog is the total the submitter computes:
\* the submitter expands the wedge, and the estimate is the number of its
\* values.
C30_EstimateIsTotal ==
    (ex_pc = "estimated" /\ UiAccepts) =>
        /\ ex_out.ok
        /\ ~ex_estimate.none
        /\ ex_estimate.total = Len(ex_out.val.l)

=============================================================================
